---- MODULE Spec2Model ----
(***************************************************************************)
(* rustyyaml: the safety filter, the value converter, the single-document  *)
(* loaders (parser.rs) and the parallel batch and directory loaders        *)
(* (batch.rs).                                                             *)
(*                                                                         *)
(* Text is a sequence of tokens (short pieces of characters); substring    *)
(* containment on text is containment of token sequences.  The tokens are  *)
(* chosen so that a deny-list fragment occurs in a text as characters      *)
(* exactly when it occurs as tokens.                                       *)
(*                                                                         *)
(* serde_yaml (the document parser) and rayon (the worker pool) are        *)
(* libraries outside the repository: a document is a text together with    *)
(* the outcome serde_yaml::from_str has on it, and the worker pool is the  *)
(* set of interleavings of the per-item closures that rayon's              *)
(* collect::<Result<Vec<_>, _>>() can produce.  The file system is a tree   *)
(* of entries that holds, for every directory, what fs::read_dir returns   *)
(* on it and, for every file, what fs::read_to_string returns on it.       *)
(***************************************************************************)
EXTENDS Integers, Sequences, FiniteSets, TLC

(***************************************************************************)
(* Bounds of the model.                                                    *)
(***************************************************************************)
\* nesting depth of the generated document trees
MaxDepth == 3
\* number of texts handed to one batch call
MaxItems == 3
\* number of entries of the directory handed to load_directory
MaxEntries == 2
\* number of documents in the text handed to load_all
MaxDocs == 3
\* pairs of a mapping with several keys
MaxPairs == 3
\* lines of the text a parse error is shown in
MaxLines == 3
\* columns an error position points at
MaxCol == 3

(***************************************************************************)
(* Rust's Option and Result.                                               *)
(***************************************************************************)
None == [some |-> FALSE]
Some(x) == [some |-> TRUE, val |-> x]
Ok(v) == [ok |-> TRUE, value |-> v]
Err(e) == [ok |-> FALSE, err |-> e]

(***************************************************************************)
(* str::contains on token sequences.                                       *)
(***************************************************************************)
Contains(s, p) ==
    \E i \in 0..(Len(s) - Len(p)) : SubSeq(s, i + 1, i + Len(p)) = p

RECURSIVE Concat(_)
Concat(ss) ==
    IF ss = <<>> THEN <<>> ELSE Head(ss) \o Concat(Tail(ss))

(***************************************************************************)
(* safe.rs: the deny-list of tag fragments, in source order.               *)
(***************************************************************************)
YamlOrg == "tag:yaml.org,2002:"

UNSAFE_TAGS ==
    << <<YamlOrg, "python", "/object">>,
       <<YamlOrg, "python", "/object", "/apply">>,
       <<YamlOrg, "python", "/object", "/new">>,
       <<YamlOrg, "python", "/name">>,
       <<YamlOrg, "python", "/module">>,
       <<"!", "!", "python", "/object">>,
       <<"!", "!", "python", "/object", "/apply">>,
       <<"!", "!", "python", "/object", "/new">>,
       <<"!", "!", "python", "/name">>,
       <<"!", "!", "python", "/module">>,
       <<"python", "/object">>,
       <<"python", "/object", "/apply">>,
       <<"python", "/object", "/new">>,
       <<"python", "/name">>,
       <<"python", "/module">> >>

\* safe.rs quick_safety_check: the patterns looked for in the raw text
dangerous_patterns ==
    << <<"!", "!", "python", "/object">>,
       <<"!", "!", "python", "/name">>,
       <<"!", "!", "python", "/module">>,
       <<"!", "python", "/object">>,
       <<"!", "python", "/name">>,
       <<"!", "python", "/module">>,
       <<YamlOrg, "python">> >>

(***************************************************************************)
(* error.rs: YAMLError, its Display text and its conversion to PyErr.      *)
(***************************************************************************)
ParseError(line, col, message) ==
    [kind |-> "ParseError", line |-> line, col |-> col, message |-> message]
UnsafeTag(tag) == [kind |-> "UnsafeTag", tag |-> tag]
InvalidNumber(value) == [kind |-> "InvalidNumber", value |-> value]
FileNotFound(path) == [kind |-> "FileNotFound", path |-> path]
DecodingError(message) == [kind |-> "DecodingError", message |-> message]

UnsafeTagPrefix == "Unsafe YAML tag detected: "
UnsafeTagHint == "\nHint: Use unsafe_load() if you trust this file"
ParseErrorPrefix == "YAML parse error at line "

\* the #[error(...)] format strings of YAMLError
to_string(e) ==
    CASE e.kind = "ParseError" ->
           <<ParseErrorPrefix, ToString(e.line), ", column ", ToString(e.col),
             ": ">> \o e.message
      [] e.kind = "UnsafeTag" ->
           <<UnsafeTagPrefix>> \o e.tag \o <<UnsafeTagHint>>
      [] e.kind = "InvalidNumber" ->
           <<"Invalid number format: ">> \o e.value
      [] e.kind = "FileNotFound" ->
           <<"File not found: ">> \o e.path
      [] e.kind = "DecodingError" ->
           <<"UTF-8 decoding error: ">> \o e.message

(***************************************************************************)
(* error.rs: extract_context and parse_with_context.  Here a text is a     *)
(* sequence of characters, so that columns can be counted.                 *)
(***************************************************************************)
\* usize::to_string: the decimal digits
RECURSIVE usize_to_string(_)
usize_to_string(n) ==
    IF n < 10 THEN <<ToString(n)>>
    ELSE usize_to_string(n \div 10) \o <<ToString(n % 10)>>

\* usize::saturating_sub
saturating_sub(a, b) == IF a >= b THEN a - b ELSE 0

\* " ".repeat(n)
repeat(c, n) == [i \in 1..n |-> c]

\* str::lines: the pieces between line feeds, no empty piece after the last
RECURSIVE lines(_)
lines(s) ==
    IF s = <<>> THEN <<>>
    ELSE LET feeds == {i \in 1..Len(s) : s[i] = "\n"}
             first == CHOOSE i \in feeds : \A j \in feeds : i <= j
         IN  IF feeds = {} THEN <<s>>
             ELSE <<SubSeq(s, 1, first - 1)>> \o lines(SubSeq(s, first + 1, Len(s)))

\* format!("  {} | {}\n", i, line)
numbered(i, line) ==
    <<" ", " ">> \o usize_to_string(i) \o <<" ", "|", " ">> \o line \o <<"\n">>

\* extract_context without the line after the error line
extract_context_no_following(content, error_line, error_col) ==
    LET ls == lines(content)
        start == saturating_sub(error_line, 2)
        before == Concat([k \in 1..(error_line - start) |->
                            LET i == start + k - 1
                            IN  IF i < Len(ls) /\ i > 0 THEN numbered(i, ls[i])
                                ELSE <<>>])
        pointer == <<" ", " ">> \o repeat(" ", Len(usize_to_string(error_line)))
                   \o <<" ", "|", " ">>
                   \o repeat(" ", saturating_sub(error_col, 1)) \o <<"^", "\n">>
    IN  IF error_line = 0 \/ error_line > Len(ls) THEN <<>>
        ELSE before \o numbered(error_line, ls[error_line]) \o pointer

\* extract_context: the loop over start..error_line, the error line, the
\* pointer and the line after
extract_context(content, error_line, error_col) ==
    LET ls == lines(content)
        start == saturating_sub(error_line, 2)
        before == Concat([k \in 1..(error_line - start) |->
                            LET i == start + k - 1
                            IN  IF i < Len(ls) /\ i > 0 THEN numbered(i, ls[i])
                                ELSE <<>>])
        pointer == <<" ", " ">> \o repeat(" ", Len(usize_to_string(error_line)))
                   \o <<" ", "|", " ">>
                   \o repeat(" ", saturating_sub(error_col, 1)) \o <<"^", "\n">>
        following == IF error_line < Len(ls)
                     THEN numbered(error_line + 1, ls[error_line + 1])
                     ELSE <<>>
    IN  IF error_line = 0 \/ error_line > Len(ls) THEN <<>>
        ELSE before \o numbered(error_line, ls[error_line]) \o pointer
             \o following

\* YAMLError::parse_with_context: format!("{}\n\n{}", message, context)
parse_with_context(line, col, message, yaml_content) ==
    ParseError(line, col,
               message \o <<"\n", "\n">> \o extract_context(yaml_content, line, col))

\* impl From<YAMLError> for PyErr: every kind becomes a ValueError
PyErrFrom(e) == [exc |-> "ValueError", msg |-> to_string(e)]

\* the error PyDict::set_item raises for a key that cannot be hashed: a
\* list or a dict, named in the message
PyTypeError(type_name) ==
    [exc |-> "TypeError", msg |-> <<"unhashable type: '", type_name, "'">>]

(***************************************************************************)
(* serde_yaml::Value, the parsed tree.                                     *)
(***************************************************************************)
VNull == [k |-> "Null"]
VBool(b) == [k |-> "Bool", b |-> b]
\* serde_yaml::Number: repr is PosInt (u64), NegInt (i64) or Float (f64).
\* The n of an integer is its magnitude.  The n of a Float below 2^64 is
\* <<sign, limb, limb, limb, limb, tenths>>: sign 1 for a negative value,
\* the magnitude of the whole part and the first digit of the fraction; the
\* n of another Float is its literal.
VNumber(repr, n) == [k |-> "Number", repr |-> repr, n |-> n]
VString(s) == [k |-> "String", s |-> s]
VSequence(items) == [k |-> "Sequence", items |-> items]
\* pairs: the (key, value) pairs in source order
VMapping(pairs) == [k |-> "Mapping", pairs |-> pairs]
VTagged(tag, value) == [k |-> "Tagged", tag |-> tag, value |-> value]

(***************************************************************************)
(* A 64-bit magnitude is four 16-bit limbs, most significant first.        *)
(***************************************************************************)
Zero == <<0, 0, 0, 0>>
One == <<0, 0, 0, 1>>
Two == <<0, 0, 0, 2>>
\* i64::MAX = 0x7FFF_FFFF_FFFF_FFFF
I64_MAX == <<32767, 65535, 65535, 65535>>

\* the magnitude of i64::MIN = 0x8000_0000_0000_0000
I64_MIN_MAG == <<32768, 0, 0, 0>>
\* u64::MAX = 0xFFFF_FFFF_FFFF_FFFF
U64_MAX == <<65535, 65535, 65535, 65535>>

\* a <= b on magnitudes
MagLe(a, b) ==
    \/ a = b
    \/ \E i \in 1..4 : a[i] < b[i] /\ \A j \in 1..(i - 1) : a[j] = b[j]

\* as_i64 that saturates at i64::MAX instead of giving up
as_i64_saturating(v) ==
    CASE v.repr = "PosInt" ->
           Some([neg |-> FALSE, mag |-> IF MagLe(v.n, I64_MAX) THEN v.n ELSE I64_MAX])
      [] v.repr = "NegInt" -> Some([neg |-> TRUE, mag |-> v.n])
      [] OTHER -> None

\* serde_yaml::Number::as_i64
as_i64(v) ==
    CASE v.repr = "PosInt" ->
           IF MagLe(v.n, I64_MAX) THEN Some([neg |-> FALSE, mag |-> v.n]) ELSE None
      [] v.repr = "NegInt" -> Some([neg |-> TRUE, mag |-> v.n])
      [] OTHER -> None

\* serde_yaml::Number::as_u64
as_u64(v) ==
    CASE v.repr = "PosInt" -> Some([neg |-> FALSE, mag |-> v.n])
      [] OTHER -> None

\* serde_yaml::Number::as_f64: every number has a float value
as_f64(v) == Some([repr |-> v.repr, n |-> v.n])

(***************************************************************************)
(* The native (Python) values.                                             *)
(***************************************************************************)
PyNone == [k |-> "NoneType"]
PyBool(b) == [k |-> "bool", b |-> b]
PyInt(i) == [k |-> "int", neg |-> i.neg, mag |-> i.mag]
PyFloat(f) == [k |-> "float", f |-> f]
PyStr(s) == [k |-> "str", s |-> s]
PyList(items) == [k |-> "list", items |-> items]
\* a dict is its (key, value) pairs in insertion order
PyDict(pairs) == [k |-> "dict", pairs |-> pairs]

\* the key is a bool, an int or a float with an integer value
IsIntegral(x) ==
    \/ x.k \in {"bool", "int"}
    \/ x.k = "float" /\ x.f.repr = "Float" /\ Len(x.f.n) = 6 /\ x.f.n[6] = 0

\* Python's hash/eq on keys: True == 1 == 1.0 and False == 0 == 0.0 == -0.0
KeyNum(x) ==
    CASE x.k = "bool" -> [neg |-> FALSE, mag |-> IF x.b THEN One ELSE Zero]
      [] x.k = "int" -> [neg |-> x.neg /\ x.mag # Zero, mag |-> x.mag]
      [] x.k = "float" ->
           LET mag == SubSeq(x.f.n, 2, 5)
           IN  [neg |-> x.f.n[1] = 1 /\ mag # Zero, mag |-> mag]

KeyEq(a, b) ==
    IF IsIntegral(a) /\ IsIntegral(b)
    THEN KeyNum(a) = KeyNum(b)
    ELSE a = b

\* set_item that puts a new key first
set_item_first(pairs, key, val) ==
    IF key.k \in {"list", "dict"} THEN Err(PyTypeError(key.k))
    ELSE IF \E i \in 1..Len(pairs) : KeyEq(pairs[i][1], key)
    THEN Ok([i \in 1..Len(pairs) |->
               IF KeyEq(pairs[i][1], key) THEN <<pairs[i][1], val>> ELSE pairs[i]])
    ELSE Ok(<< <<key, val>> >> \o pairs)

\* PyDict::set_item: a list or a dict cannot be a key; an equal key keeps its
\* place and takes the new value; a new key goes last
set_item(pairs, key, val) ==
    IF key.k \in {"list", "dict"} THEN Err(PyTypeError(key.k))
    ELSE IF \E i \in 1..Len(pairs) : KeyEq(pairs[i][1], key)
    THEN Ok([i \in 1..Len(pairs) |->
               IF KeyEq(pairs[i][1], key) THEN <<pairs[i][1], val>> ELSE pairs[i]])
    ELSE Ok(Append(pairs, <<key, val>>))

(***************************************************************************)
(* types.rs: yaml_to_python.  Interning of short strings changes no value  *)
(* and is left out.                                                        *)
(***************************************************************************)
RECURSIVE yaml_to_python(_), convert_items(_, _), convert_pairs(_, _)

\* Value::Number arm
convert_number(v) ==
    IF as_i64(v).some THEN Ok(PyInt(as_i64(v).val))
    ELSE IF as_u64(v).some THEN Ok(PyInt(as_u64(v).val))
    ELSE IF as_f64(v).some THEN Ok(PyFloat(as_f64(v).val))
    ELSE Err(PyErrFrom(InvalidNumber(<<v.repr>>)))

\* a Tagged arm that drops the tag and converts the value
convert_tagged_value(v) == yaml_to_python(v.value)

\* Value::Tagged arm: every tagged node is rejected
convert_tagged(v) == Err(PyErrFrom(UnsafeTag(v.tag)))

\* Value::Sequence arm: the loop over the items, list holding those converted
convert_items(items, list) ==
    IF items = <<>> THEN Ok(PyList(list))
    ELSE LET py_item == yaml_to_python(Head(items))
         IN  IF py_item.ok
             THEN convert_items(Tail(items), Append(list, py_item.value))
             ELSE py_item

\* Value::Mapping arm: the loop over the pairs, dict holding those inserted
convert_pairs(pairs, dict) ==
    IF pairs = <<>> THEN Ok(PyDict(dict))
    ELSE LET py_key == yaml_to_python(Head(pairs)[1])
         IN  IF ~py_key.ok THEN py_key
             ELSE LET py_val == yaml_to_python(Head(pairs)[2])
                  IN  IF ~py_val.ok THEN py_val
                      ELSE LET set == set_item(dict, py_key.value, py_val.value)
                           IN  IF ~set.ok THEN set
                               ELSE convert_pairs(Tail(pairs), set.value)

yaml_to_python(value) ==
    CASE value.k = "Null" -> Ok(PyNone)
      [] value.k = "Bool" -> Ok(PyBool(value.b))
      [] value.k = "Number" -> convert_number(value)
      [] value.k = "String" -> Ok(PyStr(value.s))
      [] value.k = "Sequence" -> convert_items(value.items, <<>>)
      [] value.k = "Mapping" -> convert_pairs(value.pairs, <<>>)
      [] value.k = "Tagged" -> convert_tagged(value)

(***************************************************************************)
(* safe.rs: check_safety and quick_safety_check.                           *)
(***************************************************************************)
Unit == <<>>

\* tag_str.contains(unsafe_tag) for some entry of UNSAFE_TAGS
tag_is_unsafe(tag_str) ==
    \E i \in 1..Len(UNSAFE_TAGS) : Contains(tag_str, UNSAFE_TAGS[i])

RECURSIVE check_safety(_), check_each(_)

\* a loop of check_safety(x)? over the nodes xs, in order
check_each(xs) ==
    IF xs = <<>> THEN Ok(Unit)
    ELSE LET r == check_safety(Head(xs))
         IN  IF r.ok THEN check_each(Tail(xs)) ELSE r

\* the values of a mapping only: a loop that does not look at the keys
values_only(pairs) == [i \in 1..Len(pairs) |-> pairs[i][2]]

\* the keys and values of a mapping in the order the loop visits them
keys_and_values(pairs) ==
    Concat([i \in 1..Len(pairs) |-> <<pairs[i][1], pairs[i][2]>>])

\* check_tagged without the walk into the tagged value
check_tagged_shallow(value) ==
    IF tag_is_unsafe(value.tag) THEN Err(UnsafeTag(value.tag)) ELSE Ok(Unit)

\* Value::Tagged arm
check_tagged(value) ==
    IF tag_is_unsafe(value.tag) THEN Err(UnsafeTag(value.tag))
    ELSE check_safety(value.value)

check_safety(value) ==
    CASE value.k = "Tagged" -> check_tagged(value)
      [] value.k = "Sequence" -> check_each(value.items)
      [] value.k = "Mapping" -> check_each(keys_and_values(value.pairs))
      [] OTHER -> Ok(Unit)

\* quick_safety_check with starts_with in place of contains
quick_safety_check_prefix(yaml_str) ==
    LET hits == {i \in 1..Len(dangerous_patterns) :
                   /\ Len(dangerous_patterns[i]) <= Len(yaml_str)
                   /\ SubSeq(yaml_str, 1, Len(dangerous_patterns[i]))
                        = dangerous_patterns[i]}
        first == CHOOSE i \in hits : \A j \in hits : i <= j
    IN  IF hits = {} THEN Ok(Unit) ELSE Err(UnsafeTag(dangerous_patterns[first]))

quick_safety_check(yaml_str) ==
    LET hits == {i \in 1..Len(dangerous_patterns) :
                   Contains(yaml_str, dangerous_patterns[i])}
        first == CHOOSE i \in hits : \A j \in hits : i <= j
    IN  IF hits = {} THEN Ok(Unit) ELSE Err(UnsafeTag(dangerous_patterns[first]))

(***************************************************************************)
(* serde_yaml::from_str.  A document is its text and what the parser makes *)
(* of it: the tree, or serde_yaml's error with its location if it has one. *)
(***************************************************************************)
SerdeError(loc, msg) == [loc |-> loc, msg |-> msg]
Location(line, col) == Some([line |-> line, col |-> col])

\* error.rs: impl From<serde_yaml::Error> for YAMLError.  The message is
\* format!("{}", err): the problem, followed by its mark when it has one
YAMLErrorFrom(err) ==
    IF err.loc.some
    THEN LET line == err.loc.val.line
             col == err.loc.val.col
         IN  ParseError(line, col,
                        err.msg \o <<" at line ">> \o usize_to_string(line)
                                \o <<" column ">> \o usize_to_string(col))
    ELSE ParseError(0, 0, err.msg)

Doc(text, parsed) == [text |-> text, parsed |-> parsed]

\* serde_yaml::from_str(yaml_str).map_err(YAMLError::from)
from_str(doc) ==
    IF doc.parsed.ok THEN doc.parsed ELSE Err(YAMLErrorFrom(doc.parsed.err))

(***************************************************************************)
(* parser.rs: parse_safe and parse_unsafe.  `?` turns a YAMLError into a   *)
(* PyErr.                                                                  *)
(***************************************************************************)
\* parse_safe with the parser called before the scan of the raw text
parse_safe_parse_first(doc) ==
    LET quick == quick_safety_check(doc.text)
        value == from_str(doc)
    IN  IF ~value.ok
        THEN [out |-> Err(PyErrFrom(value.err)), ran |-> <<"parse">>]
        ELSE IF ~quick.ok
        THEN [out |-> Err(PyErrFrom(quick.err)), ran |-> <<"parse", "quick">>]
        ELSE IF ~check_safety(value.value).ok
        THEN [out |-> Err(PyErrFrom(check_safety(value.value).err)),
              ran |-> <<"parse", "quick", "filter">>]
        ELSE [out |-> yaml_to_python(value.value),
              ran |-> <<"parse", "quick", "filter", "convert">>]

\* the body of parse_safe: what it returns and the stages it ran (quick:
\* quick_safety_check, parse: serde_yaml::from_str, filter: check_safety,
\* convert: yaml_to_python)
parse_safe_run(doc) ==
    LET quick == quick_safety_check(doc.text)
        value == from_str(doc)
    IN  IF ~quick.ok
        THEN [out |-> Err(PyErrFrom(quick.err)), ran |-> <<"quick">>]
        ELSE IF ~value.ok
        THEN [out |-> Err(PyErrFrom(value.err)), ran |-> <<"quick", "parse">>]
        ELSE IF ~check_safety(value.value).ok
        THEN [out |-> Err(PyErrFrom(check_safety(value.value).err)),
              ran |-> <<"quick", "parse", "filter">>]
        ELSE [out |-> yaml_to_python(value.value),
              ran |-> <<"quick", "parse", "filter", "convert">>]

parse_safe(doc) == parse_safe_run(doc).out

parse_unsafe(doc) ==
    LET value == from_str(doc)
    IN  IF ~value.ok THEN Err(PyErrFrom(value.err))
        ELSE yaml_to_python(value.value)

(***************************************************************************)
(* The documents of the model: every tree up to MaxDepth built from a few  *)
(* scalars, written out as text, and a few texts the parser rejects.       *)
(***************************************************************************)
\* a deny-listed tag that the raw-text scan sees too
TagApply == <<"!", "python", "/object", "/apply", ":os.system">>
\* a deny-listed tag that no pattern of the raw-text scan matches
TagHidden == <<"!", "x-", "python", "/name">>
\* a tag that matches no fragment
TagBenign == <<"!", "custom">>
Tags == {TagApply, TagHidden, TagBenign}

\* the text of a string scalar that spells a dangerous pattern
PatternText == <<"!", "!", "python", "/object">>

Leaves ==
    {VNull, VBool(TRUE), VNumber("PosInt", One), VString(<<"a">>),
     VString(PatternText)}

RECURSIVE Trees(_)
Trees(d) ==
    IF d = 0 THEN Leaves
    ELSE LET T == Trees(d - 1)
             S == {VString(<<"b">>), VTagged(TagBenign, VNull)}
         IN  Leaves
             \cup {VSequence(<<t, s>>) : t \in T, s \in S}
             \cup {VSequence(<<s, t>>) : t \in T, s \in S}
             \cup {VMapping(<< <<t, VString(<<"b">>)>> >>) : t \in T}
             \cup {VMapping(<< <<VString(<<"b">>), t>> >>) : t \in T}
             \cup {VTagged(tag, t) : tag \in Tags, t \in {x \in T : x.k # "Tagged"}}

\* the text of an integer: the decimal digits of its magnitude
\* the magnitude divided by ten, limb by limb: quotient and remainder
DivTen(mag) ==
    LET r1 == mag[1] % 10
        r2 == (r1 * 65536 + mag[2]) % 10
        r3 == (r2 * 65536 + mag[3]) % 10
    IN  [quot |-> <<mag[1] \div 10, (r1 * 65536 + mag[2]) \div 10,
                    (r2 * 65536 + mag[3]) \div 10, (r3 * 65536 + mag[4]) \div 10>>,
         rem |-> (r3 * 65536 + mag[4]) % 10]

RECURSIVE Digits(_)
Digits(mag) ==
    IF DivTen(mag).quot = Zero THEN <<ToString(DivTen(mag).rem)>>
    ELSE Append(Digits(DivTen(mag).quot), ToString(DivTen(mag).rem))

\* the text of a tree, in flow style
RECURSIVE Render(_)
Render(v) ==
    CASE v.k = "Null" -> <<"null">>
      [] v.k = "Bool" -> IF v.b THEN <<"true">> ELSE <<"false">>
      [] v.k = "Number" ->
           IF v.repr = "Float" /\ Len(v.n) = 6
           THEN (IF v.n[1] = 1 THEN <<"-">> ELSE <<>>) \o Digits(SubSeq(v.n, 2, 5))
                \o <<".", ToString(v.n[6])>>
           ELSE IF v.repr = "Float" THEN v.n
           ELSE (IF v.repr = "NegInt" THEN <<"-">> ELSE <<>>) \o Digits(v.n)
      [] v.k = "String" -> <<"'">> \o v.s \o <<"'">>
      [] v.k = "Sequence" ->
           <<"[">> \o Concat([i \in 1..Len(v.items) |->
                                Render(v.items[i]) \o <<",">>]) \o <<"]">>
      [] v.k = "Mapping" ->
           <<"{">> \o Concat([i \in 1..Len(v.pairs) |->
                                <<"? ">> \o Render(v.pairs[i][1]) \o <<": ">>
                                \o Render(v.pairs[i][2]) \o <<",">>]) \o <<"}">>
      [] v.k = "Tagged" -> v.tag \o <<" ">> \o Render(v.value)

\* a comment that spells a dangerous pattern
PatternComment == <<" # ", "!", "python", "/module">>

\* a well-formed document: the text of a tree, a comment after it
DocOf(tree, comment) == Doc(Render(tree) \o comment, Ok(tree))

\* the empty text is the null document
EmptyDoc == Doc(<<>>, Ok(VNull))

\* texts serde_yaml rejects: with a location, without one, and one that
\* spells a dangerous pattern too
BadDoc ==
    Doc(<<"bad", ": ", ": ", ":">>,
        Err(SerdeError(Location(1, 6),
                       <<"mapping values are not allowed in this context">>)))
TwoDocs ==
    Doc(<<"a", "\n---\n", "b">>,
        Err(SerdeError(None,
                       <<"deserializing from YAML containing more than one document is not supported">>)))
BadPatternDoc == Doc(BadDoc.text \o <<" # ">> \o PatternText, BadDoc.parsed)

\* the Number nodes at the ends of the integer ranges, and the floats 1.5,
\* 1.0, -1.0e23 and .inf
Numbers ==
    {VNumber("PosInt", m) :
        m \in {Zero, One, I64_MAX, I64_MIN_MAG, <<32768, 0, 0, 1>>, U64_MAX}}
    \cup {VNumber("NegInt", m) : m \in {One, I64_MAX, I64_MIN_MAG}}
    \cup {VNumber("Float", f) :
             f \in {<<0, 0, 0, 0, 1, 5>>, <<0, 0, 0, 0, 1, 0>>,
                    <<"-1.0e23">>, <<".inf">>}}

\* the keys of the mappings with several pairs: as serde_yaml::Value they
\* are all different (the parser rejects a duplicate key), as Python keys
\* true, 1 and 1.0 are the same
MapKeys ==
    {VString(<<"b">>), VBool(TRUE), VString(<<"a">>), VNumber("PosInt", One),
     VNumber("Float", <<0, 0, 0, 0, 1, 0>>)}

\* the sequences of n different keys
RECURSIVE KeyLists(_)
KeyLists(n) ==
    IF n = 0 THEN {<<>>}
    ELSE UNION {{Append(l, key) : key \in MapKeys \ {l[i] : i \in 1..Len(l)}} :
                  l \in KeyLists(n - 1)}

\* the mapping with these keys in this order, the i-th value being i
MappingOf(keys) ==
    VMapping([i \in 1..Len(keys) |-> <<keys[i], VNumber("PosInt", <<0, 0, 0, i>>)>>])

\* the mappings of 2..MaxPairs pairs
Mappings == {MappingOf(l) : l \in UNION {KeyLists(n) : n \in 2..MaxPairs}}

\* a mapping below a mapping and below a sequence
Nest(m) ==
    VMapping(<< <<VString(<<"z">>), m>>,
                <<VString(<<"a">>), VSequence(<<m>>)>> >>)

Docs ==
    {DocOf(t, <<>>) : t \in Trees(MaxDepth)}
    \cup {DocOf(t, PatternComment) : t \in Trees(1)}
    \cup {DocOf(m, <<>>) : m \in Mappings}
    \cup {DocOf(n, <<>>) : n \in Numbers}
    \cup {DocOf(VSequence(<<n, VString(<<"b">>)>>), <<>>) : n \in Numbers}
    \cup {DocOf(Nest(m), <<>>) : m \in Mappings}
    \cup {EmptyDoc, BadDoc, TwoDocs, BadPatternDoc}

(***************************************************************************)
(* The texts of the batch calls: documents that load (one of them spells a *)
(* pattern in a string scalar), one the parser rejects, one with a         *)
(* deny-listed tag behind a benign one, and one with a benign tag only.    *)
(***************************************************************************)
DocA == DocOf(VMapping(<< <<VString(<<"a">>), VNumber("PosInt", One)>> >>), <<>>)
DocB == DocOf(VMapping(<< <<VString(<<"b">>), VNumber("PosInt", Two)>> >>), <<>>)
DocHidden ==
    DocOf(VSequence(<<VTagged(TagBenign, VNull),
                      VTagged(TagHidden, VString(<<"a">>))>>), <<>>)
DocBenign == DocOf(VTagged(TagBenign, VString(<<"a">>)), <<>>)
DocPattern == DocOf(VString(PatternText), <<>>)

BatchDocs == {DocA, DocPattern, BadDoc, DocHidden, DocBenign}

\* the lists of at most n texts
RECURSIVE Lists(_)
Lists(n) ==
    IF n = 0 THEN {<<>>}
    ELSE LET L == Lists(n - 1)
         IN  L \cup {Append(l, d) : l \in {x \in L : Len(x) = n - 1}, d \in BatchDocs}

Modes == {"Safe", "Unsafe"}

(***************************************************************************)
(* The file system.  A path and a file name are texts in which "/", "."    *)
(* and the characters of an extension are tokens of their own.  An entry   *)
(* of a directory is a regular file with what fs::read_to_string returns   *)
(* on it, a directory with what fs::read_dir returns on it, something that *)
(* is neither (a fifo), or an error of the ReadDir iterator.               *)
(***************************************************************************)
File(name, read) == [kind |-> "file", name |-> name, read |-> read]
Dir(name, listing) == [kind |-> "dir", name |-> name, listing |-> listing]
Other(name) == [kind |-> "other", name |-> name]
EntryError(e) == [kind |-> "error", name |-> <<>>, err |-> e]

\* the texts of io::Error values
PermissionDenied == <<"Permission denied (os error 13)">>
InvalidData == <<"stream did not contain valid UTF-8">>
NoSuchFile == <<"No such file or directory (os error 2)">>
NotADirectory == <<"Not a directory (os error 20)">>

\* DirEntry::path: the path of the entry called name in the directory dir
join(dir, name) == dir \o <<"/">> \o name

\* the entries a directory lists; none if it cannot be read or is no directory
entries_of(d) ==
    IF d.kind = "dir" /\ d.listing.ok THEN d.listing.value ELSE <<>>

\* the directories and the files of the tree d mounted at path
RECURSIVE nodes_under(_, _)
nodes_under(path, d) ==
    {[path |-> path, node |-> d]}
    \cup UNION {nodes_under(join(path, entries_of(d)[i].name), entries_of(d)[i]) :
                  i \in {j \in 1..Len(entries_of(d)) :
                           entries_of(d)[j].kind \in {"file", "dir", "other"}}}

\* Path::is_dir and Path::is_file
is_dir(fsys, path) ==
    \E n \in nodes_under(fsys.name, fsys) : n.path = path /\ n.node.kind = "dir"
is_file(fsys, path) ==
    \E n \in nodes_under(fsys.name, fsys) : n.path = path /\ n.node.kind = "file"

\* fs::read_dir: the listing of a directory; an error on a path that is none
read_dir(fsys, path) ==
    IF is_dir(fsys, path)
    THEN (CHOOSE n \in nodes_under(fsys.name, fsys) : n.path = path).node.listing
    ELSE IF \E n \in nodes_under(fsys.name, fsys) : n.path = path
    THEN Err(NotADirectory)
    ELSE Err(NoSuchFile)

\* fs::read_to_string on a file
read_to_string(fsys, path) ==
    (CHOOSE n \in nodes_under(fsys.name, fsys) : n.path = path).node.read

\* Path::extension: what follows the last dot of the file name, unless there
\* is no dot or the only dot is the first character
extension(path) ==
    LET slashes == {i \in 1..Len(path) : path[i] = "/"}
        start == IF slashes = {} THEN 1
                 ELSE 1 + CHOOSE i \in slashes : \A j \in slashes : j <= i
        dots == {i \in start..Len(path) : path[i] = "."}
        last == CHOOSE i \in dots : \A j \in dots : j <= i
    IN  IF dots = {} \/ last = start THEN None
        ELSE Some(SubSeq(path, last + 1, Len(path)))

\* char::to_lowercase on the letters of the extensions
lower(c) ==
    CASE c = "A" -> "a"
      [] c = "L" -> "l"
      [] c = "M" -> "m"
      [] c = "Y" -> "y"
      [] OTHER -> c

\* to_lowercase that leaves the case as it is
keep_case(s) == s

\* str::to_lowercase
to_lowercase(s) == [i \in 1..Len(s) |-> lower(s[i])]

\* is_yaml with every extension taken for that of a YAML file
is_yaml_any_extension(path) == extension(path).some

\* collect_yaml_files: ext_str == "yaml" || ext_str == "yml"
is_yaml(path) ==
    /\ extension(path).some
    /\ to_lowercase(extension(path).val) \in {<<"y", "a", "m", "l">>, <<"y", "m", "l">>}

\* batch.rs: collect_yaml_files, files holding the paths pushed so far
RECURSIVE collect_yaml_files(_, _, _, _), collect_entries(_, _, _, _, _)

\* the loop `for entry in entries`
collect_entries(fsys, dir, entries, recursive, files) ==
    IF entries = <<>> THEN Ok(files)
    ELSE LET entry == Head(entries)
             path == join(dir, entry.name)
             found ==
                 IF entry.kind = "error"
                 THEN Err(ParseError(0, 0, <<"Directory entry error: ">> \o entry.err))
                 ELSE IF is_file(fsys, path)
                 THEN (IF is_yaml(path) THEN Ok(Append(files, path)) ELSE Ok(files))
                 ELSE IF is_dir(fsys, path) /\ recursive
                 THEN collect_yaml_files(fsys, path, recursive, files)
                 ELSE Ok(files)
         IN  IF found.ok
             THEN collect_entries(fsys, dir, Tail(entries), recursive, found.value)
             ELSE found

collect_yaml_files(fsys, dir, recursive, files) ==
    LET entries == read_dir(fsys, dir)
    IN  IF ~entries.ok
        THEN Err(ParseError(0, 0, <<"Failed to read directory ">> \o dir \o <<": ">>
                                    \o entries.err))
        ELSE collect_entries(fsys, dir, entries.value, recursive, files)

\* the directory the calls of load_directory are made on, and two paths that
\* are no directory: one that does not exist, one that may be a file
RootPath == <<"cfg">>
MissingPath == <<"nowhere">>

\* the files: two that load (one with an upper-case extension), one the
\* parser rejects, one with a deny-listed tag, one that is no YAML file, one
\* that cannot be decoded
FileA == File(<<"a", ".", "y", "a", "m", "l">>, Ok(DocA))
FileB == File(<<"b", ".", "Y", "M", "L">>, Ok(DocB))
FileBad == File(<<"bad", ".", "y", "m", "l">>, Ok(BadDoc))
FileHidden == File(<<"h", ".", "y", "a", "m", "l">>, Ok(DocHidden))
FileTxt == File(<<"n", ".", "t", "x", "t">>, Ok(BadDoc))
FileUnreadable == File(<<"u", ".", "y", "m", "l">>, Err(InvalidData))
\* a fifo with the name of a YAML file
Fifo == Other(<<"p", ".", "y", "a", "m", "l">>)
\* an entry the ReadDir iterator fails on
Broken == EntryError(PermissionDenied)
\* a directory that cannot be listed
Locked == Dir(<<"locked">>, Err(PermissionDenied))
\* a directory with the name of a YAML file; it holds a file named ".yaml",
\* a YAML file and a directory with one more YAML file
FileDot == File(<<".", "y", "a", "m", "l">>, Ok(BadDoc))
FileC == File(<<"c", ".", "Y", "a", "m", "l">>, Ok(DocB))
FileD == File(<<"d", ".", "y", "m", "l">>, Ok(DocA))
Deep == Dir(<<"deep">>, Ok(<<FileD>>))
Sub == Dir(<<"sub", ".", "y", "a", "m", "l">>, Ok(<<FileDot, FileC, Deep>>))

Entries ==
    {FileA, FileB, FileBad, FileHidden, FileTxt, FileUnreadable, Fifo, Broken,
     Locked, Sub}

\* the listings of at most n entries, no entry twice
RECURSIVE Listings(_)
Listings(n) ==
    IF n = 0 THEN {<<>>}
    ELSE LET L == Listings(n - 1)
         IN  L \cup UNION {{Append(l, e) : e \in Entries \ {l[i] : i \in 1..Len(l)}} :
                              l \in {x \in L : Len(x) = n - 1}}

EmptyDisk == Dir(RootPath, Ok(<<>>))

\* the trees mounted at RootPath: every listing, and a root that cannot be
\* listed
Disks ==
    {Dir(RootPath, Ok(l)) : l \in Listings(MaxEntries)}
    \cup {Dir(RootPath, Err(PermissionDenied))}

Entrypoints == {"many", "directory"}

(***************************************************************************)
(* State.                                                                  *)
(***************************************************************************)
VARIABLES
    doc,          \* the text handed to safe_load and unsafe_load
    outSafe,      \* what safe_load returned on doc, once it has
    outUnsafe,    \* what unsafe_load returned on doc, once it has
    outScan,      \* what check_safety returned on the tree of doc, once it has
    ran,          \* the stages safe_load ran on doc, in order
    source_text,  \* the text handed to parse_with_context
    error_line,   \* the line of the error position handed to it
    error_col,    \* the column of the error position handed to it
    outContext,   \* the ParseError it returned, once it has
    stream,       \* the documents of the text handed to load_all / load_all_unsafe
    all_mode,     \* the call in progress: load_all (Safe) or load_all_unsafe
    all_pc,       \* idle, loop (over the documents) or returned
    position,     \* the number of documents the loop has taken from the text
    steps,        \* the stages run so far: stage and position of the document
    documents,    \* the objects pushed so far
    outAll,       \* what the call returned, once it has
    disk,         \* the file system: the tree mounted at RootPath
    directory,    \* the path handed to load_directory and load_directory_unsafe
    recursive,    \* the flag handed to them
    entry,        \* the loaders the caller uses: over texts (many) or a directory
    last,         \* the batch call that returned last: mode, inputs and result
    mode,         \* the batch call in progress: the safe or the unsafe loader
    yaml_strings, \* the texts handed to safe_load_many and unsafe_load_many
    yaml_files,   \* the paths collect_yaml_files found for the call in progress
    pc,           \* idle, parse (the parallel map), convert, or returned
    task,         \* per text: pending, running, done or skipped
    slot,         \* per text: what the map closure returned, once it has
    saved_error,  \* rayon's collect into Result: the error it keeps
    full,         \* rayon's while_some: set once an item has failed
    finished,     \* the texts in the order their closures finished
    values,       \* parsed_values, once collected
    objects,      \* the objects converted so far, in conversion order
    converted,    \* the indices converted so far, in conversion order
    result        \* what the batch call in progress returns

allVars == <<stream, all_mode, all_pc, position, steps, documents, outAll>>
contextVars == <<source_text, error_line, error_col, outContext>>
loadVars == <<doc, outSafe, outUnsafe, outScan, ran, contextVars, allVars>>
inputVars == <<disk, directory, recursive, yaml_strings, entry>>
batchVars ==
    <<inputVars, last, mode, yaml_files, pc, task, slot, saved_error, full,
      finished, values, objects, converted, result>>
vars == <<loadVars, batchVars>>

\* what the parallel map of the call in progress runs over
inputs == IF entry = "many" THEN yaml_strings ELSE yaml_files

N == Len(inputs)

\* no call of parse_with_context made, and no text to make it on
ContextIdle ==
    /\ source_text = <<>>
    /\ error_line = 0
    /\ error_col = 0
    /\ outContext = None

\* no call of load_all in progress and none made
AllIdle ==
    /\ all_mode = "Safe"
    /\ all_pc = "idle"
    /\ position = 0
    /\ steps = <<>>
    /\ documents = <<>>
    /\ outAll = None

\* no batch call in progress and none made
BatchIdle ==
    /\ last = None
    /\ mode = "Safe"
    /\ yaml_files = <<>>
    /\ pc = "idle"
    /\ task = <<>>
    /\ slot = <<>>
    /\ saved_error = None
    /\ full = FALSE
    /\ finished = <<>>
    /\ values = <<>>
    /\ objects = <<>>
    /\ converted = <<>>
    /\ result = None

(***************************************************************************)
(* lib.rs: safe_load and unsafe_load on one text.                          *)
(***************************************************************************)
InitLoad ==
    /\ doc \in Docs
    /\ outSafe = None
    /\ outUnsafe = None
    /\ outScan = None
    /\ ran = <<>>
    /\ ContextIdle
    /\ stream = <<EmptyDoc>>
    /\ AllIdle
    /\ yaml_strings = <<>>
    /\ disk = EmptyDisk
    /\ directory = RootPath
    /\ recursive = FALSE
    /\ entry = "many"
    /\ BatchIdle

safe_load ==
    /\ ~outSafe.some
    /\ outSafe' = Some(parse_safe(doc))
    /\ ran' = parse_safe_run(doc).ran
    /\ UNCHANGED <<doc, outUnsafe, outScan, contextVars, allVars, batchVars>>

unsafe_load ==
    /\ ~outUnsafe.some
    /\ outUnsafe' = Some(parse_unsafe(doc))
    /\ UNCHANGED <<doc, outSafe, outScan, ran, contextVars, allVars, batchVars>>

\* safe.rs: check_safety on the tree the parser made of doc
scan_tree ==
    /\ doc.parsed.ok
    /\ ~outScan.some
    /\ outScan' = Some(check_safety(doc.parsed.value))
    /\ UNCHANGED <<doc, outSafe, outUnsafe, ran, contextVars, allVars, batchVars>>

NextLoad == safe_load \/ unsafe_load \/ scan_tree

SpecLoad == InitLoad /\ [][NextLoad]_vars

(***************************************************************************)
(* parser.rs: parse_all and parse_all_unsafe (load_all and load_all_unsafe *)
(* of lib.rs).  The text is the texts of its documents with the document   *)
(* marker between them; serde_yaml::Deserializer::from_str hands out the   *)
(* documents one by one.                                                   *)
(***************************************************************************)
DocumentMarker == <<"\n---\n">>

\* the text of a stream of documents
RECURSIVE all_text(_)
all_text(docs) ==
    IF docs = <<>> THEN <<>>
    ELSE IF Len(docs) = 1 THEN Head(docs).text
    ELSE Head(docs).text \o DocumentMarker \o all_text(Tail(docs))

\* the line feeds of a text; the document marker holds two
RECURSIVE line_feeds(_)
line_feeds(text) ==
    IF text = <<>> THEN 0
    ELSE (CASE Head(text) = "\n" -> 1
            [] Head(text) = "\n---\n" -> 2
            [] OTHER -> 0) + line_feeds(Tail(text))

\* the i-th document as serde_yaml::Deserializer::from_str hands it out: the
\* deserializer reads the whole text, so the mark of an error is a position
\* in the whole text, the lines before the document counted in
document(docs, i) ==
    LET d == docs[i]
        before == line_feeds(all_text(SubSeq(docs, 1, i - 1)) \o DocumentMarker)
    IN  IF i = 1 \/ d.parsed.ok \/ ~d.parsed.err.loc.some THEN d
        ELSE Doc(d.text,
                 Err(SerdeError(Location(d.parsed.err.loc.val.line + before,
                                         d.parsed.err.loc.val.col),
                                d.parsed.err.msg)))

Stage(name, i) == [stage |-> name, index |-> i]

\* parse_document without the tree scan of load_all
parse_document_unfiltered(m, d, i) ==
    LET value == from_str(d)
        py_obj == yaml_to_python(value.value)
    IN  IF ~value.ok
        THEN [out |-> Err(PyErrFrom(value.err)), ran |-> <<Stage("parse", i)>>]
        ELSE [out |-> py_obj, ran |-> <<Stage("parse", i), Stage("convert", i)>>]

\* the body of the loop over the documents, for the document d at position
\* i: the object to push or the error to return, and the stages that ran
parse_document(m, d, i) ==
    LET value == from_str(d)
        py_obj == yaml_to_python(value.value)
    IN  IF ~value.ok
        THEN [out |-> Err(PyErrFrom(value.err)), ran |-> <<Stage("parse", i)>>]
        ELSE IF m = "Safe" /\ ~check_safety(value.value).ok
        THEN [out |-> Err(PyErrFrom(check_safety(value.value).err)),
              ran |-> <<Stage("parse", i), Stage("filter", i)>>]
        ELSE [out |-> py_obj,
              ran |-> <<Stage("parse", i)>>
                      \o (IF m = "Safe" THEN <<Stage("filter", i)>> ELSE <<>>)
                      \o <<Stage("convert", i)>>]

\* load_all or load_all_unsafe starts; load_all scans the whole text first
load_all(m) ==
    /\ all_pc = "idle"
    /\ all_mode' = m
    /\ LET quick == quick_safety_check(all_text(stream))
       IN  IF m = "Safe" /\ ~quick.ok
           THEN /\ all_pc' = "returned"
                /\ outAll' = Some(Err(PyErrFrom(quick.err)))
           ELSE /\ all_pc' = "loop"
                /\ outAll' = outAll
    /\ UNCHANGED <<doc, outSafe, outUnsafe, outScan, ran, contextVars, stream,
                   position, steps, documents,
                   batchVars>>

\* one turn of the loop: the next document is parsed, scanned (load_all) and
\* converted; the first failure returns
next_document ==
    /\ all_pc = "loop"
    /\ position < Len(stream)
    /\ LET r == parse_document(all_mode, document(stream, position + 1), position + 1)
       IN  /\ steps' = steps \o r.ran
           /\ IF r.out.ok
              THEN /\ documents' = Append(documents, r.out.value)
                   /\ all_pc' = all_pc
                   /\ outAll' = outAll
              ELSE /\ documents' = documents
                   /\ all_pc' = "returned"
                   /\ outAll' = Some(r.out)
    /\ position' = position + 1
    /\ UNCHANGED <<doc, outSafe, outUnsafe, outScan, ran, contextVars, stream,
                   all_mode, batchVars>>

\* the text has no more documents: the list is returned
return_documents ==
    /\ all_pc = "loop"
    /\ position = Len(stream)
    /\ all_pc' = "returned"
    /\ outAll' = Some(Ok(documents))
    /\ UNCHANGED <<doc, outSafe, outUnsafe, outScan, ran, contextVars, stream,
                   all_mode, position, steps,
                   documents, batchVars>>

\* the documents a text is made of
StreamDocs == {DocA, DocB, BadDoc, DocHidden, DocBenign, DocPattern}

\* the streams of exactly n documents
RECURSIVE StreamsOf(_)
StreamsOf(n) ==
    IF n = 0 THEN {<<>>}
    ELSE {Append(l, d) : l \in StreamsOf(n - 1), d \in StreamDocs}

\* the streams of at most n documents; the empty text is a stream of one
\* document, the null document
Streams(n) == {<<EmptyDoc>>} \cup UNION {StreamsOf(k) : k \in 1..n}

InitAll ==
    /\ doc = EmptyDoc
    /\ outSafe = None
    /\ outUnsafe = None
    /\ outScan = None
    /\ ran = <<>>
    /\ ContextIdle
    /\ stream \in Streams(MaxDocs)
    /\ AllIdle
    /\ yaml_strings = <<>>
    /\ disk = EmptyDisk
    /\ directory = RootPath
    /\ recursive = FALSE
    /\ entry = "many"
    /\ BatchIdle

NextAll ==
    \/ \E m \in Modes : load_all(m)
    \/ next_document
    \/ return_documents

SpecAll == InitAll /\ [][NextAll]_vars

(***************************************************************************)
(* error.rs: parse_with_context on a text and an error position.           *)
(***************************************************************************)
\* the lines a text is made of: empty, one character, two characters
LineChoices == {<<>>, <<"a">>, <<"a", "b">>}

\* the sequences of at most n lines
RECURSIVE LineLists(_)
LineLists(n) ==
    IF n = 0 THEN {<<>>}
    ELSE LET L == LineLists(n - 1)
         IN  L \cup {Append(l, c) : l \in {x \in L : Len(x) = n - 1}, c \in LineChoices}

\* the text of these lines, a line feed between two of them
RECURSIVE JoinLines(_)
JoinLines(ls) ==
    IF ls = <<>> THEN <<>>
    ELSE IF Len(ls) = 1 THEN Head(ls)
    ELSE Head(ls) \o <<"\n">> \o JoinLines(Tail(ls))

\* a text of eleven lines, for line numbers of two digits
LongText == JoinLines([i \in 1..11 |-> IF i % 2 = 1 THEN <<"a">> ELSE <<"a", "b">>])

\* the texts: with and without a line feed at the end
SourceTexts ==
    {JoinLines(l) : l \in LineLists(MaxLines)}
    \cup {JoinLines(l) \o <<"\n">> : l \in LineLists(MaxLines)}
    \cup {LongText}

\* the message of the parser
ParserMessage == <<"mapping values are not allowed in this context">>

InitContext ==
    /\ source_text \in SourceTexts
    /\ error_line \in 0..(MaxLines + 1) \cup {9, 10, 11, 12}
    /\ error_col \in 0..MaxCol
    /\ outContext = None
    /\ doc = EmptyDoc
    /\ outSafe = None
    /\ outUnsafe = None
    /\ outScan = None
    /\ ran = <<>>
    /\ stream = <<EmptyDoc>>
    /\ AllIdle
    /\ yaml_strings = <<>>
    /\ disk = EmptyDisk
    /\ directory = RootPath
    /\ recursive = FALSE
    /\ entry = "many"
    /\ BatchIdle

\* YAMLError::parse_with_context is called on the text and the position
call_parse_with_context ==
    /\ ~outContext.some
    /\ outContext' =
          Some(parse_with_context(error_line, error_col, ParserMessage, source_text))
    /\ UNCHANGED <<source_text, error_line, error_col, doc, outSafe, outUnsafe,
                   outScan, ran, allVars, batchVars>>

NextContext == call_parse_with_context

SpecContext == InitContext /\ [][NextContext]_vars

(***************************************************************************)
(* safe_load and load_all side by side: the two Safe-mode loaders that     *)
(* scan the raw text first, one on doc and one on stream.                  *)
(***************************************************************************)
\* texts with and without a pattern, well-formed and malformed
PreScanDocs == {DocA, DocPattern, DocHidden, BadDoc, BadPatternDoc,
                DocOf(VNull, PatternComment)}

InitPreScan ==
    /\ doc \in PreScanDocs
    /\ outSafe = None
    /\ outUnsafe = None
    /\ outScan = None
    /\ ran = <<>>
    /\ ContextIdle
    /\ stream \in Streams(MaxDocs)
    /\ AllIdle
    /\ yaml_strings = <<>>
    /\ disk = EmptyDisk
    /\ directory = RootPath
    /\ recursive = FALSE
    /\ entry = "many"
    /\ BatchIdle

NextPreScan ==
    \/ safe_load
    \/ load_all("Safe")
    \/ next_document
    \/ return_documents

SpecPreScan == InitPreScan /\ [][NextPreScan]_vars

(***************************************************************************)
(* batch.rs: safe_load_many, unsafe_load_many, load_directory and          *)
(* load_directory_unsafe.                                                  *)
(***************************************************************************)
\* safe_item with a text that does not parse taken as the null document
safe_item_lenient(yaml_str) ==
    LET value == from_str(yaml_str)
    IN  IF ~value.ok THEN Ok(VNull)
        ELSE IF ~check_safety(value.value).ok THEN check_safety(value.value)
        ELSE Ok(value.value)

\* the closure of safe_load_many's parallel map
safe_item(yaml_str) ==
    LET value == from_str(yaml_str)
    IN  IF ~value.ok THEN value
        ELSE IF ~check_safety(value.value).ok THEN check_safety(value.value)
        ELSE Ok(value.value)

\* unsafe_item with the tree scan of safe_item left in
unsafe_item_filtered(yaml_str) ==
    LET value == from_str(yaml_str)
    IN  IF ~value.ok THEN value
        ELSE IF ~check_safety(value.value).ok THEN check_safety(value.value)
        ELSE Ok(value.value)

\* the closure of unsafe_load_many's parallel map
unsafe_item(yaml_str) ==
    LET value == from_str(yaml_str)
    IN  IF ~value.ok THEN value ELSE Ok(value.value)

\* the error of a file that cannot be read
read_failure(path, e) ==
    ParseError(0, 0, <<"Failed to read ">> \o path \o <<": ">> \o e)

\* safe_file with the name of the file in place of its path
safe_file_bare_name(fsys, path) ==
    LET content == read_to_string(fsys, path)
        value == from_str(content.value)
        slashes == {i \in 1..Len(path) : path[i] = "/"}
        name == SubSeq(path, 1 + (CHOOSE i \in slashes : \A j \in slashes : j <= i),
                       Len(path))
    IN  IF ~content.ok THEN Err(read_failure(path, content.err))
        ELSE IF ~value.ok THEN value
        ELSE IF ~check_safety(value.value).ok THEN check_safety(value.value)
        ELSE Ok(<<name, value.value>>)

\* the closure of load_directory's parallel map
safe_file(fsys, path) ==
    LET content == read_to_string(fsys, path)
        value == from_str(content.value)
    IN  IF ~content.ok THEN Err(read_failure(path, content.err))
        ELSE IF ~value.ok THEN value
        ELSE IF ~check_safety(value.value).ok THEN check_safety(value.value)
        ELSE Ok(<<path, value.value>>)

\* the closure of load_directory_unsafe's parallel map
unsafe_file(fsys, path) ==
    LET content == read_to_string(fsys, path)
        value == from_str(content.value)
    IN  IF ~content.ok THEN Err(read_failure(path, content.err))
        ELSE IF ~value.ok THEN value
        ELSE Ok(<<path, value.value>>)

\* the closure of the parallel map of entry point e in mode m
map_item(e, m, fsys, x) ==
    CASE e = "many" /\ m = "Safe" -> safe_item(x)
      [] e = "many" /\ m = "Unsafe" -> unsafe_item(x)
      [] e = "directory" /\ m = "Safe" -> safe_file(fsys, x)
      [] e = "directory" /\ m = "Unsafe" -> unsafe_file(fsys, x)

\* list_directory without the test that the path is a directory
list_directory_unchecked(fsys, dir, rec) ==
    collect_yaml_files(fsys, dir, rec, <<>>)

\* load_directory up to the parallel map: the path must be a directory, and
\* the YAML files below it are collected
list_directory(fsys, dir, rec) ==
    IF ~is_dir(fsys, dir) THEN Err(FileNotFound(dir))
    ELSE collect_yaml_files(fsys, dir, rec, <<>>)

\* the closure of the serial map: a tree is converted; load_directory keeps
\* the path next to the object
realize(e, v) ==
    IF e = "many" THEN yaml_to_python(v)
    ELSE LET py_obj == yaml_to_python(v[2])
         IN  IF py_obj.ok THEN Ok(<<v[1], py_obj.value>>) ELSE py_obj

\* save_error with every error overwriting the one saved
save_error_last(saved, error) == Some(error)

\* collect into Result keeps the first error it is handed: a later one is dropped
save_error(saved, error) == IF saved.some THEN saved ELSE Some(error)

\* collect_ok with the trees in the order the closures finished
collect_ok_as_finished(slots, order) ==
    LET oks == SelectSeq(order, LAMBDA i : slots[i].some /\ slots[i].val.ok)
    IN  [j \in 1..Len(oks) |-> slots[oks[j]].val.value]

\* the trees of the closures that returned Ok, in the order of the texts
RECURSIVE collect_ok(_, _)
collect_ok(slots, order) ==
    IF slots = <<>> THEN <<>>
    ELSE (IF Head(slots).some /\ Head(slots).val.ok
          THEN <<Head(slots).val.value>> ELSE <<>>)
         \o collect_ok(Tail(slots), order)

\* parsed_values with the failures left out of the list instead of returned
parsed_values_partial(slots, saved, order) == Ok(collect_ok(slots, order))

\* parsed_values with the saved error lost when a closure was never run
parsed_values_unless_skipped(slots, saved, order) ==
    IF saved.some /\ \A i \in DOMAIN slots : slots[i].some THEN Err(saved.val)
    ELSE Ok(collect_ok(slots, order))

\* .collect() into Result<Vec<_>, YAMLError>: the saved error if there is one
parsed_values(slots, saved, order) ==
    IF saved.some THEN Err(saved.val) ELSE Ok(collect_ok(slots, order))

\* all_complete without the wait for the closures still running
all_taken(t) == \A i \in DOMAIN t : t[i] # "pending"

\* the parallel map is over: every closure has returned or was never run
all_complete(t) == \A i \in DOMAIN t : t[i] \in {"done", "skipped"}

\* values.iter(): the index converted after the first c
next_index(c, n) == c + 1

\* safe_load_many or unsafe_load_many starts: the texts are handed to the
\* worker pool
Call(m) ==
    /\ pc = "idle"
    /\ entry = "many"
    /\ mode' = m
    /\ yaml_files' = <<>>
    /\ pc' = "parse"
    /\ task' = [i \in 1..Len(yaml_strings) |-> "pending"]
    /\ slot' = [i \in 1..Len(yaml_strings) |-> None]
    /\ saved_error' = None
    /\ full' = FALSE
    /\ finished' = <<>>
    /\ values' = <<>>
    /\ objects' = <<>>
    /\ converted' = <<>>
    /\ result' = None
    /\ UNCHANGED <<loadVars, inputVars, last>>

\* load_directory or load_directory_unsafe starts: the call fails at once if
\* the path is no directory or the walk fails; else the paths found are
\* handed to the worker pool
CallDirectory(m) ==
    /\ pc = "idle"
    /\ entry = "directory"
    /\ mode' = m
    /\ LET listed == list_directory(disk, directory, recursive)
       IN  IF listed.ok
           THEN /\ yaml_files' = listed.value
                /\ pc' = "parse"
                /\ result' = None
           ELSE /\ yaml_files' = <<>>
                /\ pc' = "returned"
                /\ result' = Some(Err(PyErrFrom(listed.err)))
    /\ task' = [i \in 1..Len(yaml_files') |-> "pending"]
    /\ slot' = [i \in 1..Len(yaml_files') |-> None]
    /\ saved_error' = None
    /\ full' = FALSE
    /\ finished' = <<>>
    /\ values' = <<>>
    /\ objects' = <<>>
    /\ converted' = <<>>
    /\ UNCHANGED <<loadVars, inputVars, last>>

\* a worker takes text i, unless an item has failed already
Start(i) ==
    /\ pc = "parse"
    /\ task[i] = "pending"
    /\ ~full
    /\ task' = [task EXCEPT ![i] = "running"]
    /\ UNCHANGED <<loadVars, inputVars, last, mode, yaml_files, pc, slot,
                   saved_error, full, finished, values, objects, converted,
                   result>>

\* an item has failed: text i, not taken yet, is dropped without being parsed
Skip(i) ==
    /\ pc = "parse"
    /\ task[i] = "pending"
    /\ full
    /\ task' = [task EXCEPT ![i] = "skipped"]
    /\ UNCHANGED <<loadVars, inputVars, last, mode, yaml_files, pc, slot,
                   saved_error, full, finished, values, objects, converted,
                   result>>

\* the closure returns for text i; an error is saved if it is the first
Finish(i) ==
    /\ pc = "parse"
    /\ task[i] = "running"
    /\ LET r == map_item(entry, mode, disk, inputs[i])
       IN  /\ slot' = [slot EXCEPT ![i] = Some(r)]
           /\ saved_error' = IF r.ok THEN saved_error
                             ELSE save_error(saved_error, r.err)
           /\ full' = (full \/ ~r.ok)
    /\ task' = [task EXCEPT ![i] = "done"]
    /\ finished' = Append(finished, i)
    /\ UNCHANGED <<loadVars, inputVars, last, mode, yaml_files, pc, values,
                   objects, converted, result>>

\* collect() returns and `parsed_values?` is taken
Collect ==
    /\ pc = "parse"
    /\ all_complete(task)
    /\ LET pv == parsed_values(slot, saved_error, finished)
       IN  IF pv.ok
           THEN /\ values' = pv.value
                /\ pc' = "convert"
                /\ result' = result
           ELSE /\ values' = values
                /\ pc' = "returned"
                /\ result' = Some(Err(PyErrFrom(pv.err)))
    /\ UNCHANGED <<loadVars, inputVars, last, mode, yaml_files, task, slot,
                   saved_error, full, finished, objects, converted>>

\* one step of values.iter().map(yaml_to_python): the first failure returns
Convert ==
    /\ pc = "convert"
    /\ Len(converted) < Len(values)
    /\ LET i == next_index(Len(converted), Len(values))
           py == realize(entry, values[i])
       IN  /\ converted' = Append(converted, i)
           /\ IF py.ok
              THEN /\ objects' = Append(objects, py.value)
                   /\ pc' = pc
                   /\ result' = result
              ELSE /\ objects' = objects
                   /\ pc' = "returned"
                   /\ result' = Some(Err(py.err))
    /\ UNCHANGED <<loadVars, inputVars, last, mode, yaml_files, task, slot,
                   saved_error, full, finished, values>>

\* every value is converted: the list is returned
Return ==
    /\ pc = "convert"
    /\ Len(converted) = Len(values)
    /\ pc' = "returned"
    /\ result' = Some(Ok(objects))
    /\ UNCHANGED <<loadVars, inputVars, last, mode, yaml_files, task, slot,
                   saved_error, full, finished, values, objects, converted>>

\* the caller has the result and may call again on the same inputs; what
\* the call held is gone
Done ==
    /\ pc = "returned"
    /\ last' = Some([mode |-> mode, inputs |-> inputs, result |-> result.val])
    /\ pc' = "idle"
    /\ yaml_files' = <<>>
    /\ task' = <<>>
    /\ slot' = <<>>
    /\ saved_error' = None
    /\ full' = FALSE
    /\ finished' = <<>>
    /\ values' = <<>>
    /\ objects' = <<>>
    /\ converted' = <<>>
    /\ result' = None
    /\ UNCHANGED <<loadVars, inputVars, mode>>

\* the caller has a list of texts, or a directory on a file system
Init ==
    /\ doc = EmptyDoc
    /\ outSafe = None
    /\ outUnsafe = None
    /\ outScan = None
    /\ ran = <<>>
    /\ ContextIdle
    /\ stream = <<EmptyDoc>>
    /\ AllIdle
    /\ \/ /\ entry = "many"
          /\ yaml_strings \in Lists(MaxItems)
          /\ disk = EmptyDisk
          /\ directory = RootPath
          /\ recursive = FALSE
       \/ /\ entry = "directory"
          /\ yaml_strings = <<>>
          /\ disk \in Disks
          /\ directory = RootPath
          /\ recursive \in BOOLEAN
       \/ /\ entry = "directory"
          /\ yaml_strings = <<>>
          /\ disk \in {d \in Disks : Len(entries_of(d)) <= 1}
          /\ directory \in {MissingPath, join(RootPath, FileA.name)}
          /\ recursive \in BOOLEAN
    /\ BatchIdle

Next ==
    \/ \E m \in Modes : Call(m)
    \/ \E m \in Modes : CallDirectory(m)
    \/ \E i \in 1..N : Start(i)
    \/ \E i \in 1..N : Skip(i)
    \/ \E i \in 1..N : Finish(i)
    \/ Collect
    \/ Convert
    \/ Return
    \/ Done

Spec == Init /\ [][Next]_vars

(***************************************************************************)
(* Properties of the single-document loaders (SpecLoad).                   *)
(***************************************************************************)
\* the tags of the Tagged nodes of a tree, at every depth and position
RECURSIVE TagsIn(_)
TagsIn(v) ==
    CASE v.k = "Tagged" -> {v.tag} \cup TagsIn(v.value)
      [] v.k = "Sequence" -> UNION {TagsIn(v.items[i]) : i \in 1..Len(v.items)}
      [] v.k = "Mapping" ->
           UNION {TagsIn(v.pairs[i][1]) \cup TagsIn(v.pairs[i][2]) :
                    i \in 1..Len(v.pairs)}
      [] OTHER -> {}

Range(f) == {f[i] : i \in DOMAIN f}

\* the document parses and its tree holds a tag with a deny-list fragment
HasDenyListedTag(d) ==
    /\ d.parsed.ok
    /\ \E t \in TagsIn(d.parsed.value) :
         \E frag \in Range(UNSAFE_TAGS) : Contains(t, frag)

\* the document parses and its tree holds no Tagged node
TagFree(d) == d.parsed.ok /\ TagsIn(d.parsed.value) = {}

\* the raw text holds a pattern of the pre-scan
HasPattern(text) == \E pat \in Range(dangerous_patterns) : Contains(text, pat)

\* a result that is the failure raised for YAMLError::UnsafeTag
IsUnsafeTagFailure(r) ==
    /\ ~r.ok
    /\ r.err.exc = "ValueError"
    /\ Head(r.err.msg) = UnsafeTagPrefix

\* the failure names a pre-scan pattern or a tag with a deny-list fragment
NamesDenyListed(r) ==
    \E frag \in Range(UNSAFE_TAGS) \cup Range(dangerous_patterns) :
       Contains(r.err.msg, frag)

\* C1: a document whose tree holds, at any depth (sequence element, mapping
\* key or value, inside another tagged node), a tag with a deny-list
\* fragment is never loaded by safe_load: the call fails with UnsafeTag, and
\* the tag it names is deny-listed (the filter rejected it, not the
\* converter).
C1_SafeRejectsDenyListedTag ==
    (outSafe.some /\ HasDenyListedTag(doc)) =>
        /\ IsUnsafeTagFailure(outSafe.val)
        /\ NamesDenyListed(outSafe.val)

\* safe_load has run on a document that passes the pre-scan and whose
\* mapping key holds a deny-listed tag below a sequence
C1_Witness ==
    /\ outSafe.some
    /\ HasDenyListedTag(doc)
    /\ quick_safety_check(doc.text).ok
    /\ doc.parsed.value.k = "Mapping"
    /\ doc.parsed.value.pairs[1][1].k = "Sequence"
    /\ TagHidden \in TagsIn(doc.parsed.value.pairs[1][1])
    /\ IsUnsafeTagFailure(outSafe.val)

\* C2 (as claimed): unsafe_load succeeds on every well-formed document that
\* holds a deny-listed tag.
C2_UnsafeLoadsDenyListedTag ==
    (outUnsafe.some /\ HasDenyListedTag(doc)) => outUnsafe.val.ok

\* C3 (as claimed): on a tag-free document safe_load and unsafe_load both
\* succeed, with equal values.
C3_TagFreeBothSucceed ==
    (outSafe.some /\ outUnsafe.some /\ TagFree(doc)) =>
        /\ outSafe.val.ok
        /\ outUnsafe.val.ok
        /\ outSafe.val.value = outUnsafe.val.value

\* C3 (amended): on a tag-free document whose text holds no pre-scan pattern
\* safe_load and unsafe_load return the same result (the same value, or the
\* same failure); when the text holds a pattern, in a string scalar or a
\* comment, safe_load fails with UnsafeTag.
C3_TagFreeSameUnlessPattern ==
    (outSafe.some /\ outUnsafe.some /\ TagFree(doc)) =>
        IF HasPattern(doc.text)
        THEN IsUnsafeTagFailure(outSafe.val) /\ NamesDenyListed(outSafe.val)
        ELSE outSafe.val = outUnsafe.val

\* both loaders have run on a tag-free document with a pattern in a string
\* scalar: unsafe_load returned its value, safe_load refused it
C3_Witness ==
    /\ outSafe.some /\ outUnsafe.some
    /\ TagFree(doc)
    /\ HasPattern(doc.text)
    /\ doc.parsed.value.k = "Sequence"
    /\ outUnsafe.val.ok
    /\ ~outSafe.val.ok

(***************************************************************************)
(* Properties of the batch loaders (Spec).                                 *)
(***************************************************************************)
\* the document behind input x of entry point e: the text itself, or what
\* reading the file at the path gives
InputDoc(e, x) == IF e = "many" THEN Ok(x) ELSE read_to_string(disk, x)

\* input x fails in the parallel stage of entry point e in mode m: the file
\* cannot be read, the text does not parse, or (safe loaders) the tree scan
\* rejects its tree
ItemFails(e, m, x) ==
    \/ ~InputDoc(e, x).ok
    \/ ~InputDoc(e, x).value.parsed.ok
    \/ m = "Safe" /\ HasDenyListedTag(InputDoc(e, x).value)

FailingItems == {i \in 1..N : ItemFails(entry, mode, inputs[i])}

\* the conversion of text d
Native(d) == yaml_to_python(d.parsed.value)

\* what a call that succeeds returns for input x: the object, and for the
\* directory loaders the path with it
Element(e, x) ==
    LET py == Native(InputDoc(e, x).value)
    IN  IF e = "many" \/ ~py.ok THEN py ELSE Ok(<<x, py.value>>)

\* the inputs whose closure has returned an error
Failed == {i \in DOMAIN slot : slot[i].some /\ ~slot[i].val.ok}

\* C4: a batch call that succeeds returns one element per input, the element
\* at index i being the conversion of input i, whatever the order in which
\* the workers took and finished the inputs.
C4_ListAlignedWithInput ==
    (pc = "returned" /\ result.val.ok) =>
        /\ Len(result.val.value) = N
        /\ \A i \in 1..N :
             /\ ~ItemFails(entry, "Unsafe", inputs[i])
             /\ Ok(result.val.value[i]) = Element(entry, inputs[i])

\* safe_load_many on three texts, two of them different, has returned its
\* list, the last text having been finished first
C4_Witness ==
    /\ pc = "returned"
    /\ entry = "many"
    /\ result.val.ok
    /\ N = 3
    /\ yaml_strings[1] # yaml_strings[3]
    /\ finished[1] = 3

\* C5: when an input fails in the parallel stage, the call returns one error
\* and no list, whatever the other inputs are and whatever the interleaving.
C5_FailureFailsTheCall ==
    (pc = "returned" /\ FailingItems # {}) =>
        /\ ~result.val.ok
        /\ DOMAIN result.val = {"ok", "err"}
        /\ DOMAIN result.val.err = {"exc", "msg"}

\* a call on three texts has returned an error: the second text failed, the
\* first and the third were parsed successfully
C5_Witness ==
    /\ pc = "returned"
    /\ entry = "many"
    /\ N = 3
    /\ FailingItems = {2}
    /\ slot[1].some /\ slot[1].val.ok
    /\ slot[3].some /\ slot[3].val.ok
    /\ ~result.val.ok

\* C6: the conversion starts only when the closure of every input has
\* returned Ok; the trees are converted one after the other in ascending
\* index; when a closure has returned an error nothing is converted.
C6_ConvertAfterParseInOrder ==
    /\ (pc = "convert" \/ converted # <<>>) =>
          \A i \in 1..N : task[i] = "done" /\ slot[i].val.ok
    /\ \A j \in 1..Len(converted) : converted[j] = j
    /\ Len(objects) <= Len(converted)
    /\ Failed # {} => (converted = <<>> /\ pc # "convert")

\* load_directory has converted two of three files, the closures having
\* finished out of order
C6_Witness ==
    /\ pc = "convert"
    /\ entry = "directory"
    /\ N = 3
    /\ converted = <<1, 2>>
    /\ finished[1] = 3

\* C7 (as claimed): when the call decides (collect has returned), every one
\* of the N closures has run to completion: none was skipped.
C7_AllTasksRunToCompletion ==
    pc \in {"convert", "returned"} => \A i \in 1..N : task[i] = "done"

\* C7 (amended): when the call decides, no closure is running or waiting:
\* each has run to completion or was skipped before it started; an input is
\* skipped only once the closure of another input has returned an error;
\* when no input fails, all N closures run to completion.
C7_TasksCompleteOrSkipped ==
    /\ pc \in {"convert", "returned"} =>
          \A i \in 1..N : task[i] \in {"done", "skipped"}
    /\ \A i \in DOMAIN task : task[i] = "skipped" => Failed # {}
    /\ (pc \in {"convert", "returned"} /\ FailingItems = {}) =>
          \A i \in 1..N : task[i] = "done"

\* a call has returned with one input skipped after another failed
C7_Witness ==
    /\ pc = "returned"
    /\ \E i, j \in 1..N : task[i] = "skipped" /\ j \in Failed

\* the least element of a non-empty set of indices
Min(S) == CHOOSE i \in S : \A j \in S : i <= j

\* the inputs that failed, in the order their closures finished
FailedInOrder == SelectSeq(finished, LAMBDA i : i \in Failed)

\* C8 (as claimed): when inputs fail in the parallel stage, the error
\* returned is that of the failing input with the lowest index.
C8_ErrorOfLowestIndex ==
    (pc = "returned" /\ FailingItems # {}) =>
        result.val =
            Err(PyErrFrom(map_item(entry, mode, disk, inputs[Min(FailingItems)]).err))

\* C8 (amended): when inputs fail in the parallel stage, the error returned
\* is that of the failing input whose closure finished first, which is any
\* of the failing inputs depending on the interleaving.
C8_ErrorOfFirstFinished ==
    (pc = "returned" /\ FailingItems # {}) =>
        /\ FailedInOrder # <<>>
        /\ Head(FailedInOrder) \in FailingItems
        /\ result.val = Err(PyErrFrom(slot[Head(FailedInOrder)].val.err))

\* safe_load_many: two texts failed with different errors and the call
\* returned the error of the one with the higher index
C8_Witness ==
    /\ pc = "returned"
    /\ entry = "many"
    /\ mode = "Safe"
    /\ \E i, j \in Failed :
         /\ i < j
         /\ slot[i].val # slot[j].val
         /\ result.val = Err(PyErrFrom(slot[j].val.err))

\* C9 (as claimed): safe_load_many on the single text t succeeds exactly
\* when safe_load on t does, and then returns the value safe_load returns.
C9_BatchOfOneLikeSafeLoad ==
    (pc = "returned" /\ entry = "many" /\ mode = "Safe" /\ N = 1) =>
        /\ result.val.ok <=> parse_safe(yaml_strings[1]).ok
        /\ result.val.ok => result.val.value = <<parse_safe(yaml_strings[1]).value>>

\* every input that parses has a tree without a Tagged node
NoTaggedNode ==
    \A i \in 1..N :
        LET d == InputDoc(entry, inputs[i])
        IN  (d.ok /\ d.value.parsed.ok) => TagFree(d.value)

\* the results of the safe and of the unsafe loader, when the call that has
\* returned and the call before it were made in different modes
ResultOf(m) == IF mode = m THEN result.val ELSE last.val.result

\* C10: the unsafe batch loaders never run the tree scan (their closures fail
\* with ParseError only) and return an error or a list with one element per
\* input; on inputs without a Tagged node a call of the unsafe loader and a
\* call of the safe loader on the same inputs both fail or both return the
\* same list.
C10_UnsafeManyLikeSafeMany ==
    /\ mode = "Unsafe" => \A i \in Failed : slot[i].val.err.kind = "ParseError"
    /\ (pc = "returned" /\ mode = "Unsafe" /\ result.val.ok) =>
          Len(result.val.value) = N
    /\ (pc = "returned" /\ last.some /\ last.val.mode # mode) =>
          /\ last.val.inputs = inputs
          /\ NoTaggedNode =>
               /\ ResultOf("Safe").ok <=> ResultOf("Unsafe").ok
               /\ ResultOf("Safe").ok => ResultOf("Safe") = ResultOf("Unsafe")

\* safe_load_many has returned the list unsafe_load_many returned before it,
\* two objects for two different texts without a Tagged node
C10_Witness ==
    /\ pc = "returned"
    /\ entry = "many"
    /\ mode = "Safe"
    /\ last.some
    /\ last.val.mode = "Unsafe"
    /\ N = 2
    /\ NoTaggedNode
    /\ yaml_strings[1] # yaml_strings[2]
    /\ result.val.ok
    /\ result.val = last.val.result

\* C12: load_directory and load_directory_unsafe on a path that does not
\* exist or is a file fail with FileNotFound naming the path; no directory
\* was listed (the error is not the one of a listing), no file was read,
\* parsed or scanned and nothing was converted.
C12_NotADirectoryIsFileNotFound ==
    (entry = "directory" /\ pc # "idle" /\ ~is_dir(disk, directory)) =>
        /\ pc = "returned"
        /\ result.val = Err(PyErrFrom(FileNotFound(directory)))
        /\ result.val.err.msg = <<"File not found: ">> \o directory
        /\ yaml_files = <<>>
        /\ task = <<>>
        /\ finished = <<>>
        /\ values = <<>>
        /\ converted = <<>>

\* load_directory_unsafe has returned on the path of a file that exists
C12_Witness ==
    /\ entry = "directory"
    /\ mode = "Unsafe"
    /\ pc = "returned"
    /\ is_file(disk, directory)
    /\ ~result.val.ok

\* path p lies below the directory dir; directly in it
IsUnder(p, dir) ==
    /\ Len(p) > Len(dir) + 1
    /\ SubSeq(p, 1, Len(dir)) = dir
    /\ p[Len(dir) + 1] = "/"
IsDirectlyIn(p, dir) ==
    IsUnder(p, dir) /\ \A k \in (Len(dir) + 2)..Len(p) : p[k] # "/"

\* the name at the end of path p has an extension that is yaml or yml in
\* some mix of cases
YamlName(p) ==
    \E k \in 2..Len(p) :
        /\ p[k] = "."
        /\ p[k - 1] # "/"
        /\ \A j \in (k + 1)..Len(p) : p[j] \notin {".", "/"}
        /\ SubSeq(p, k + 1, Len(p)) \in
              {<<y, a, m, l>> : y \in {"y", "Y"}, a \in {"a", "A"},
                               m \in {"m", "M"}, l \in {"l", "L"}}
              \cup {<<y, m, l>> : y \in {"y", "Y"}, m \in {"m", "M"}, l \in {"l", "L"}}

\* the nodes of the file system that a walk from dir looks at
Walked(fsys, dir, rec) ==
    {n \in nodes_under(fsys.name, fsys) :
        IF rec THEN n.path = dir \/ IsUnder(n.path, dir)
        ELSE n.path = dir \/ IsDirectlyIn(n.path, dir)}

\* the candidate documents: the regular files with a YAML name in dir, and
\* below it when recursive
Candidates(fsys, dir, rec) ==
    {n.path : n \in {x \in Walked(fsys, dir, rec) :
                        x.path # dir /\ x.node.kind = "file" /\ YamlName(x.path)}}

\* every directory the walk lists can be listed, entry by entry
WalkMeetsNoError(fsys, dir, rec) ==
    \A n \in Walked(fsys, dir, rec) :
        (n.node.kind = "dir" /\ (rec \/ n.path = dir)) =>
            /\ n.node.listing.ok
            /\ \A i \in 1..Len(n.node.listing.value) :
                  n.node.listing.value[i].kind # "error"

\* C13: load_directory and load_directory_unsafe on a directory in which the
\* walk finds no candidate document (no entry, no regular file with a yaml
\* or yml extension, or such files only in subdirectories when recursive is
\* false) return the empty list.
C13_NoCandidateIsEmptyList ==
    (/\ entry = "directory"
     /\ pc = "returned"
     /\ is_dir(disk, directory)
     /\ WalkMeetsNoError(disk, directory, recursive)
     /\ Candidates(disk, directory, recursive) = {}) =>
        result.val = Ok(<<>>)

\* load_directory without recursion has returned the empty list on a
\* directory that holds a text file and a subdirectory with YAML files
C13_Witness ==
    /\ entry = "directory"
    /\ mode = "Safe"
    /\ pc = "returned"
    /\ ~recursive
    /\ entries_of(disk) = <<FileTxt, Sub>>
    /\ Candidates(disk, directory, TRUE) # {}
    /\ result.val = Ok(<<>>)

\* C14 (as claimed): in the directory loaders a file that cannot be decoded
\* fails with DecodingError, a file or a directory that cannot be read for
\* another reason fails with FileNotFound, and neither is a ParseError.
C14_ReadFailureKeepsItsKind ==
    /\ \A i \in Failed :
          (entry = "directory" /\ ~read_to_string(disk, inputs[i]).ok) =>
             /\ slot[i].val.err.kind # "ParseError"
             /\ slot[i].val.err.kind =
                   IF read_to_string(disk, inputs[i]).err = InvalidData
                   THEN "DecodingError" ELSE "FileNotFound"
    /\ (/\ entry = "directory"
        /\ pc = "returned"
        /\ is_dir(disk, directory)
        /\ ~WalkMeetsNoError(disk, directory, recursive)
        /\ yaml_files = <<>>
        /\ ~result.val.ok) =>
          Head(result.val.err.msg) = "File not found: "

(***************************************************************************)
(* Properties of load_all and load_all_unsafe (SpecAll).                   *)
(***************************************************************************)
\* what the loader of one text returns on document d in mode m; for a
\* document of a stream, document(stream, i), the position of an error is
\* its position in the text of the stream
LoadOne(m, d) == IF m = "Safe" THEN parse_safe(d) ELSE parse_unsafe(d)

\* the documents of the stream that the loader of one text fails on
FailingDocs == {i \in 1..Len(stream) : ~LoadOne(all_mode, document(stream, i)).ok}

\* the documents of the stream that fail in the loop: the parser rejects the
\* document, the tree scan rejects its tree (load_all), or the conversion of
\* its tree fails
FailingInLoop ==
    {i \in 1..Len(stream) :
        \/ ~stream[i].parsed.ok
        \/ all_mode = "Safe" /\ HasDenyListedTag(stream[i])
        \/ ~Native(stream[i]).ok}

\* the objects of the first n documents
NativesUpTo(n) == [i \in 1..n |-> Native(stream[i]).value]

\* C11 (as claimed): the call returns the objects of the documents in
\* document order; if a document fails, the call returns the error of the
\* first failing document, and no stage runs on a later document.
C11_ErrorOfFirstFailingDocument ==
    all_pc = "returned" =>
        IF FailingDocs = {}
        THEN outAll.val = Ok(NativesUpTo(Len(stream)))
        ELSE /\ outAll.val = LoadOne(all_mode, document(stream, Min(FailingDocs)))
             /\ \A k \in 1..Len(steps) : steps[k].index <= Min(FailingDocs)

\* C11 (amended): load_all on a text that holds a pre-scan pattern, in any of
\* its documents, fails with UnsafeTag naming the pattern before any document
\* is parsed.  Otherwise the call returns the objects of the documents in
\* document order, or, if a document fails, the error of the first failing
\* document, the documents before it having been converted and no stage
\* having run on a later one.
C11_FirstFailingUnlessPattern ==
    all_pc = "returned" =>
        IF all_mode = "Safe" /\ HasPattern(all_text(stream))
        THEN /\ IsUnsafeTagFailure(outAll.val)
             /\ \E pat \in Range(dangerous_patterns) : Contains(outAll.val.err.msg, pat)
             /\ steps = <<>>
             /\ documents = <<>>
        ELSE IF FailingInLoop = {}
        THEN /\ outAll.val = Ok(NativesUpTo(Len(stream)))
             /\ position = Len(stream)
        ELSE /\ outAll.val = LoadOne(all_mode, document(stream, Min(FailingInLoop)))
             /\ ~outAll.val.ok
             /\ position = Min(FailingInLoop)
             /\ \A k \in 1..Len(steps) : steps[k].index <= Min(FailingInLoop)
             /\ documents = NativesUpTo(Min(FailingInLoop) - 1)

\* load_all has returned the error of the second of three documents, which
\* the parser rejected on line 3 of the text; the first was converted, the
\* third never parsed
C11_Witness ==
    /\ all_pc = "returned"
    /\ all_mode = "Safe"
    /\ Len(stream) = 3
    /\ ~HasPattern(all_text(stream))
    /\ FailingInLoop = {2, 3}
    /\ stream[2] = BadDoc
    /\ steps[Len(steps)] = Stage("parse", 2)
    /\ outAll.val.err.msg[2] = "3"
    /\ Len(documents) = 1
    /\ ~outAll.val.ok

(***************************************************************************)
(* Properties of the failures the host sees (SpecLoad).                    *)
(***************************************************************************)
\* the kind of exception the host receives for a YAMLError
HostKind(e) == PyErrFrom(e).exc

\* C15: a safety rejection and a syntax error reach the caller as distinct
\* kinds: when safe_load fails with the UnsafeTag diagnostic, the exception
\* has another kind than the one unsafe_load raises for a text the parser
\* rejects, and than the one raised for any ParseError.
C15_UnsafeTagKindDiffersFromParseError ==
    (/\ outSafe.some /\ IsUnsafeTagFailure(outSafe.val)
     /\ outUnsafe.some /\ ~doc.parsed.ok) =>
        /\ outSafe.val.err.exc # outUnsafe.val.err.exc
        /\ outSafe.val.err.exc # HostKind(YAMLErrorFrom(doc.parsed.err))

(***************************************************************************)
(* Properties of the converter (SpecLoad).                                 *)
(***************************************************************************)
\* the keys in the order they are first seen, equal keys (True and 1)
\* counting once
RECURSIVE FirstSeen(_)
FirstSeen(keys) ==
    IF keys = <<>> THEN <<>>
    ELSE LET front == FirstSeen(SubSeq(keys, 1, Len(keys) - 1))
             key == keys[Len(keys)]
         IN  IF \E i \in 1..Len(front) : KeyEq(front[i], key) THEN front
             ELSE Append(front, key)

\* the native value py keeps the source order of tree v: at every Mapping
\* node the keys of the dict are the converted source keys in first-seen
\* order, and the values of the dict and the items of every list keep it too
RECURSIVE OrderKept(_, _)
OrderKept(v, py) ==
    CASE v.k = "Mapping" ->
           LET keys == [i \in 1..Len(v.pairs) |-> yaml_to_python(v.pairs[i][1]).value]
               last_of(key) == CHOOSE i \in 1..Len(keys) :
                               /\ KeyEq(keys[i], key)
                               /\ \A j \in (i + 1)..Len(keys) : ~KeyEq(keys[j], key)
           IN  /\ py.k = "dict"
               /\ [i \in 1..Len(py.pairs) |-> py.pairs[i][1]] = FirstSeen(keys)
               /\ \A i \in 1..Len(py.pairs) :
                     OrderKept(v.pairs[last_of(py.pairs[i][1])][2], py.pairs[i][2])
      [] v.k = "Sequence" ->
           /\ py.k = "list"
           /\ Len(py.items) = Len(v.items)
           /\ \A i \in 1..Len(v.items) : OrderKept(v.items[i], py.items[i])
      [] OTHER -> TRUE

\* C16: whenever a load returns a native value, every dict in it has its
\* keys in the first-seen order of the keys of the source mapping, at every
\* nesting depth (below mappings and below sequences); nothing is re-sorted.
C16_KeyOrderIsSourceOrder ==
    /\ (outSafe.some /\ outSafe.val.ok) =>
          OrderKept(doc.parsed.value, outSafe.val.value)
    /\ (outUnsafe.some /\ outUnsafe.val.ok) =>
          OrderKept(doc.parsed.value, outUnsafe.val.value)

\* both loaders have returned a value for a document whose mapping
\* 'b', 1, 1.0 (not in sorted order, two keys equal for the host) sits below
\* a mapping and a sequence: the dict holds 'b' and 1, in this order
C16_Witness ==
    /\ outSafe.some /\ outSafe.val.ok
    /\ outUnsafe.some /\ outUnsafe.val.ok
    /\ doc.parsed.ok
    /\ doc.parsed.value =
          Nest(MappingOf(<<VString(<<"b">>), VNumber("PosInt", One),
                           VNumber("Float", <<0, 0, 0, 0, 1, 0>>)>>))
    /\ Len(outSafe.val.value.pairs[1][2].pairs) = 2
    /\ outSafe.val.value.pairs[1][2].pairs[2][1].k = "int"

\* the tree holds a mapping one of whose keys is a sequence or a mapping
RECURSIVE HasUnhashableKey(_)
HasUnhashableKey(v) ==
    CASE v.k = "Mapping" ->
           \E i \in 1..Len(v.pairs) :
              \/ v.pairs[i][1].k \in {"Sequence", "Mapping"}
              \/ HasUnhashableKey(v.pairs[i][1])
              \/ HasUnhashableKey(v.pairs[i][2])
      [] v.k = "Sequence" -> \E i \in 1..Len(v.items) : HasUnhashableKey(v.items[i])
      [] v.k = "Tagged" -> HasUnhashableKey(v.value)
      [] OTHER -> FALSE

\* the failure raised for a mapping key that is a list or a dict
IsTypeError(r) == ~r.ok /\ r.err \in {PyTypeError("list"), PyTypeError("dict")}

\* the document parses and its tree holds a Tagged node
HasTag(d) == d.parsed.ok /\ TagsIn(d.parsed.value) # {}

\* the failure raised for UnsafeTag, naming a tag of the tree of document d
NamesTagOf(d, r) ==
    /\ IsUnsafeTagFailure(r)
    /\ \E tag \in TagsIn(d.parsed.value) : r.err = PyErrFrom(UnsafeTag(tag))

\* C17 as stated: the conversion of every tree that holds a Tagged node
\* fails with UnsafeTag naming the tag, so unsafe_load, which converts
\* whatever parses, fails with UnsafeTag naming a tag of the tree, and so
\* does safe_load.
C17_TaggedTreeFailsWithUnsafeTag ==
    /\ (outUnsafe.some /\ HasTag(doc)) => NamesTagOf(doc, outUnsafe.val)
    /\ (outSafe.some /\ HasTag(doc)) => IsUnsafeTagFailure(outSafe.val)

\* C17 amended: no loader returns a native value for a document whose tree
\* holds a Tagged node, whatever the tag.  unsafe_load fails with UnsafeTag
\* naming a tag of the tree, or, when the tree has a mapping with a
\* sequence or a mapping as key, possibly with the TypeError of that key
\* (the converter met it before the Tagged node).  A document whose tags are
\* all benign and whose text holds no pre-scan pattern passes both filter
\* stages of safe_load and fails in the converter in the same way.
C17_TaggedTreeNeverConverts ==
    /\ (outUnsafe.some /\ HasTag(doc)) =>
          /\ ~outUnsafe.val.ok
          /\ \/ NamesTagOf(doc, outUnsafe.val)
             \/ IsTypeError(outUnsafe.val) /\ HasUnhashableKey(doc.parsed.value)
    /\ (outSafe.some /\ HasTag(doc)) =>
          /\ ~outSafe.val.ok
          /\ \/ IsUnsafeTagFailure(outSafe.val)
             \/ IsTypeError(outSafe.val) /\ HasUnhashableKey(doc.parsed.value)
    /\ (/\ outSafe.some /\ HasTag(doc)
        /\ ~HasDenyListedTag(doc) /\ ~HasPattern(doc.text)) =>
          /\ quick_safety_check(doc.text).ok
          /\ check_safety(doc.parsed.value).ok
          /\ \/ NamesTagOf(doc, outSafe.val)
             \/ IsTypeError(outSafe.val) /\ HasUnhashableKey(doc.parsed.value)

\* both loaders have failed with UnsafeTag on a document whose only tag is
\* benign and sits in a mapping below a sequence
C17_Witness ==
    /\ outSafe.some /\ outUnsafe.some
    /\ HasTag(doc) /\ TagsIn(doc.parsed.value) = {TagBenign}
    /\ ~HasPattern(doc.text)
    /\ doc.parsed.value.k = "Sequence"
    /\ doc.parsed.value.items[1].k = "Mapping"
    /\ TagsIn(doc.parsed.value.items[1]) = {TagBenign}
    /\ outSafe.val = Err(PyErrFrom(UnsafeTag(TagBenign)))
    /\ outUnsafe.val = outSafe.val

(***************************************************************************)
(* Properties of check_safety (SpecLoad).                                  *)
(***************************************************************************)
\* the tags of tree v that contain a deny-list fragment
DenyListedTagsIn(v) ==
    {tag \in TagsIn(v) : \E frag \in Range(UNSAFE_TAGS) : Contains(tag, frag)}

\* C18: check_safety rejects a tree exactly when some Tagged node of it, at
\* any depth and in any position (sequence element, mapping key, mapping
\* value, below a tag that matches nothing), has a tag containing a
\* deny-list fragment; the UnsafeTag it returns carries the whole tag of
\* such a node, and a tree without one is accepted.
C18_ScanRejectsIffDenyListedTag ==
    outScan.some =>
        /\ ~outScan.val.ok <=> DenyListedTagsIn(doc.parsed.value) # {}
        /\ ~outScan.val.ok =>
              \E tag \in DenyListedTagsIn(doc.parsed.value) :
                 outScan.val.err = UnsafeTag(tag)
        /\ outScan.val.ok => outScan.val.value = Unit

\* check_safety has rejected a tree whose deny-listed tag is on a mapping key
\* below a tag that matches nothing
C18_Witness ==
    /\ outScan.some
    /\ doc.parsed.ok
    /\ doc.parsed.value.k = "Tagged"
    /\ doc.parsed.value.tag = TagBenign
    /\ doc.parsed.value.value.k = "Mapping"
    /\ doc.parsed.value.value.pairs[1][1].k = "Tagged"
    /\ doc.parsed.value.value.pairs[1][1].tag = TagHidden
    /\ outScan.val = Err(UnsafeTag(TagHidden))

(***************************************************************************)
(* Properties of the scan of the raw text (SpecPreScan).                   *)
(***************************************************************************)
\* the failure raised for the first pattern of the pre-scan that text holds
IsPatternFailure(text, r) ==
    \E i \in 1..Len(dangerous_patterns) :
       /\ Contains(text, dangerous_patterns[i])
       /\ \A j \in 1..(i - 1) : ~Contains(text, dangerous_patterns[j])
       /\ r = Err(PyErrFrom(UnsafeTag(dangerous_patterns[i])))

\* C19: safe_load and load_all scan the whole raw text before the parser is
\* called.  The scan is the first stage safe_load runs; a text that holds a
\* pre-scan pattern is rejected with UnsafeTag and nothing else runs: no
\* parse, no tree scan, no conversion, for safe_load on one text and for
\* load_all on a stream (no document is taken from it), also when the text
\* is malformed.
C19_PreScanBeforeParser ==
    /\ outSafe.some => Head(ran) = "quick"
    /\ (outSafe.some /\ HasPattern(doc.text)) =>
          /\ ran = <<"quick">>
          /\ IsPatternFailure(doc.text, outSafe.val)
    /\ (all_pc # "idle" /\ all_mode = "Safe" /\ HasPattern(all_text(stream))) =>
          /\ all_pc = "returned"
          /\ steps = <<>>
          /\ position = 0
          /\ documents = <<>>
          /\ outAll.some
          /\ IsPatternFailure(all_text(stream), outAll.val)

\* safe_load has rejected a malformed text that spells a pattern, and
\* load_all a stream whose first document is malformed and whose second
\* spells a pattern
C19_Witness ==
    /\ doc = BadPatternDoc /\ ~doc.parsed.ok
    /\ outSafe.some /\ IsUnsafeTagFailure(outSafe.val)
    /\ stream = <<BadDoc, DocPattern>>
    /\ all_mode = "Safe" /\ all_pc = "returned"
    /\ outAll.some /\ IsUnsafeTagFailure(outAll.val)

(***************************************************************************)
(* Properties of the Number arm of the converter (SpecLoad).               *)
(***************************************************************************)
\* the value of Number node v lies in the i64 range, in the u64 range
FitsI64(v) ==
    \/ v.repr = "PosInt" /\ MagLe(v.n, I64_MAX)
    \/ v.repr = "NegInt" /\ MagLe(v.n, I64_MIN_MAG)
FitsU64(v) == v.repr = "PosInt" /\ MagLe(v.n, U64_MAX)

\* native value py is what the claim asks for Number node v
NumberKept(v, py) ==
    IF FitsI64(v) \/ FitsU64(v)
    THEN /\ py.k = "int"
         /\ py.mag = v.n
         /\ py.neg = (v.repr = "NegInt")
    ELSE /\ py.k = "float"
         /\ py.f.n = v.n

\* the Number node the document is, or the one its sequence starts with
NumberOf(d) ==
    IF d.parsed.value.k = "Sequence" THEN d.parsed.value.items[1]
    ELSE d.parsed.value

\* the document is a number, or a sequence of a number and a string
HasNumber(d) ==
    /\ d.parsed.ok
    /\ NumberOf(d).k = "Number"
    /\ d.parsed.value.k = "Sequence" =>
          /\ Len(d.parsed.value.items) = 2
          /\ d.parsed.value.items[2].k = "String"

NativeNumber(d, py) ==
    IF d.parsed.value.k = "Sequence" THEN py.items[1] ELSE py

\* C20: a Number node converts to the exact integer when its value fits
\* i64, to the exact integer when it is above i64::MAX and fits u64, and to
\* a float otherwise; the conversion never fails (no InvalidNumber) and the
\* integer has the magnitude and the sign of the node.  safe_load converts
\* only what its filters let through.
C20_NumberConversion ==
    /\ (outUnsafe.some /\ HasNumber(doc)) =>
          /\ outUnsafe.val.ok
          /\ NumberKept(NumberOf(doc), NativeNumber(doc, outUnsafe.val.value))
    /\ (outSafe.some /\ HasNumber(doc) /\ "convert" \in Range(ran)) =>
          /\ outSafe.val.ok
          /\ NumberKept(NumberOf(doc), NativeNumber(doc, outSafe.val.value))
    /\ \A v \in Numbers :
          /\ convert_number(v).ok
          /\ NumberKept(v, convert_number(v).value)

\* unsafe_load has returned the integer 2^63, which fits u64 and not i64
C20_Witness ==
    /\ outUnsafe.some
    /\ doc.parsed.ok
    /\ doc.parsed.value = VNumber("PosInt", I64_MIN_MAG)
    /\ ~FitsI64(doc.parsed.value)
    /\ outUnsafe.val = Ok(PyInt([neg |-> FALSE, mag |-> I64_MIN_MAG]))

(***************************************************************************)
(* Properties of the directory walker (Spec).                              *)
(***************************************************************************)
\* C21: when the walk of load_directory meets no I/O error, the paths it
\* hands to the worker pool are exactly the regular files with a yaml or
\* yml extension, in any mix of cases, in the directory, and below it at
\* every depth exactly when recursive is set; a file with another or no
\* extension, a directory and a fifo are never listed, and no path is
\* listed twice.
C21_WalkerListsExactlyYamlFiles ==
    (/\ entry = "directory"
     /\ pc # "idle"
     /\ is_dir(disk, directory)
     /\ WalkMeetsNoError(disk, directory, recursive)) =>
        /\ Range(yaml_files) = Candidates(disk, directory, recursive)
        /\ Cardinality(Range(yaml_files)) = Len(yaml_files)
        /\ \A i \in 1..Len(yaml_files) :
              /\ is_file(disk, yaml_files[i])
              /\ IsDirectlyIn(yaml_files[i], directory) \/ recursive

\* a recursive walk has listed a file with an upper-case extension, one in
\* a subdirectory and one two levels down, and none of the others there
C21_Witness ==
    /\ entry = "directory"
    /\ pc = "parse"
    /\ recursive
    /\ entries_of(disk) = <<Sub, FileB>>
    /\ yaml_files = <<join(join(RootPath, Sub.name), FileC.name),
                      join(join(join(RootPath, Sub.name), Deep.name), FileD.name),
                      join(RootPath, FileB.name)>>

(***************************************************************************)
(* Properties of the rendered context (SpecContext).                       *)
(***************************************************************************)
\* the context the error carries: what follows the message and a blank line
ContextOf(e) == SubSeq(e.message, Len(ParserMessage) + 3, Len(e.message))

\* the lines of the text, and the lines of the rendered context
TextLines == lines(source_text)
Rendered == lines(ContextOf(outContext.val))

\* the numbers of the lines of the text that are to be shown around line l
ShownBefore(l) == {i \in {l - 2, l - 1} : i >= 1}
ShownAfter(l) == {i \in {l + 1} : i <= Len(TextLines)}

\* what stands before the text of line i in a rendered line
Margin(i) == <<" ", " ">> \o usize_to_string(i) \o <<" ", "|", " ">>

\* the rendered context, for a caret meant to stand under column c of the
\* error line: the lines before, the error line, the caret line, the line
\* after, each line of the text behind its number
ContextShape(c) ==
    LET l == error_line
        nb == Cardinality(ShownBefore(l))
        caret == Rendered[nb + 2]
    IN  /\ Len(Rendered) = nb + 2 + Cardinality(ShownAfter(l))
        /\ \A k \in 1..nb :
              Rendered[k] = Margin(l - nb + k - 1) \o TextLines[l - nb + k - 1]
        /\ Rendered[nb + 1] = Margin(l) \o TextLines[l]
        /\ \A i \in 1..Len(caret) :
              caret[i] = IF i = Len(Margin(l)) + c THEN "^"
                         ELSE IF i = Len(Margin(l)) - 1 THEN "|" ELSE " "
        /\ Len(caret) = Len(Margin(l)) + c
        /\ ShownAfter(l) # {} =>
              Rendered[nb + 3] = Margin(l + 1) \o TextLines[l + 1]
        /\ ContextOf(outContext.val)[Len(ContextOf(outContext.val))] = "\n"

\* the position names a line of the text
LineKnown == error_line >= 1 /\ error_line <= Len(TextLines)

\* C22 as stated: for a position whose line L is a line of the text, the
\* context is the lines L-2 and L-1 that exist, line L, a caret line with
\* the caret under column col of line L, and line L+1 if it exists; it is
\* empty when L is 0 or beyond the last line.
C22_CaretUnderColumn ==
    outContext.some =>
        /\ LineKnown => ContextShape(error_col)
        /\ ~LineKnown => ContextOf(outContext.val) = <<>>

\* C22 amended: the same, the caret standing under column col when col is
\* 1 or more and under column 1 when col is 0 (the column is unknown).
C22_CaretUnderColumnOrFirst ==
    outContext.some =>
        /\ outContext.val.kind = "ParseError"
        /\ outContext.val.line = error_line /\ outContext.val.col = error_col
        /\ LineKnown => ContextShape(IF error_col = 0 THEN 1 ELSE error_col)
        /\ ~LineKnown => ContextOf(outContext.val) = <<>>

\* the context of line 10 of the text of eleven lines has been rendered,
\* the caret under column 2: lines 8 and 9, line 10, the caret, line 11
C22_Witness ==
    /\ outContext.some
    /\ source_text = LongText
    /\ error_line = 10
    /\ error_col = 2
    /\ Len(Rendered) = 5
    /\ Rendered[1] = <<" ", " ", "8", " ", "|", " ", "a", "b">>
    /\ Rendered[4] = <<" ", " ", " ", " ", " ", "|", " ", " ", "^">>
    /\ Rendered[5] = <<" ", " ", "1", "1", " ", "|", " ", "a">>

(***************************************************************************)
(* Properties of two batch calls on the same input (Spec).                 *)
(***************************************************************************)
\* the call that has returned and the one before it were made by the same
\* loader on the same inputs
SameCallTwice ==
    /\ pc = "returned"
    /\ last.some
    /\ last.val.mode = mode
    /\ last.val.inputs = inputs

\* C23: two calls of the same batch loader on the same input, whatever the
\* interleavings of the workers in each, both succeed or both fail; when
\* they succeed they return the same list; when they fail they surface the
\* same Diagnostic unless two or more items fail in the parallel stage.
C23_SameInputSameOutcome ==
    SameCallTwice =>
        /\ result.val.ok = last.val.result.ok
        /\ result.val.ok => result.val = last.val.result
        /\ (~result.val.ok /\ Cardinality(FailingItems) <= 1) =>
              result.val = last.val.result

\* the second of two calls of safe_load_many on the same three texts has
\* returned the same list, its closures having finished out of order
C23_Witness ==
    /\ SameCallTwice
    /\ entry = "many"
    /\ mode = "Safe"
    /\ N = 3
    /\ finished = <<3, 1, 2>>
    /\ result.val.ok
    /\ Len(result.val.value) = 3
    /\ result.val = last.val.result

\* two calls on the same texts, two of which fail, have surfaced different
\* Diagnostics
C23_DiagnosticMayDiffer ==
    /\ SameCallTwice
    /\ Cardinality(FailingItems) >= 2
    /\ ~result.val.ok
    /\ result.val # last.val.result

(***************************************************************************)
(* Properties of the list load_directory returns (Spec).                   *)
(***************************************************************************)
\* the paths of the pairs of the list a directory call returned
PairPaths == [i \in 1..Len(result.val.value) |-> result.val.value[i][1]]

\* the conversion of what fs::read_to_string returns on path p
ConversionOfFile(p) ==
    yaml_to_python(read_to_string(disk, p).value.parsed.value)

\* C24: in the list load_directory or load_directory_unsafe returns, the
\* pairs are the files the walker listed, one pair per file and in the
\* order of the walk (a directory's entries in listing order, a
\* subdirectory's files at its place), and the value of each pair is the
\* conversion of the content of the file of the same pair, whatever the
\* order in which the workers read and parsed the files.
C24_PairsFollowTheWalk ==
    (entry = "directory" /\ pc = "returned" /\ result.val.ok) =>
        /\ PairPaths = yaml_files
        /\ PairPaths = list_directory(disk, directory, recursive).value
        /\ Range(PairPaths) = Candidates(disk, directory, recursive)
        /\ Cardinality(Range(PairPaths)) = Len(PairPaths)
        /\ \A i \in 1..Len(PairPaths) :
              /\ read_to_string(disk, PairPaths[i]).ok
              /\ ConversionOfFile(PairPaths[i]).ok
              /\ result.val.value[i][2] = ConversionOfFile(PairPaths[i]).value

\* load_directory has returned three pairs for a directory with a
\* subdirectory, the file walked last having been parsed first, and files
\* of different content next to each other
C24_Witness ==
    /\ entry = "directory"
    /\ mode = "Safe"
    /\ pc = "returned"
    /\ recursive
    /\ entries_of(disk) = <<Sub, FileB>>
    /\ finished = <<3, 2, 1>>
    /\ result.val.ok
    /\ Len(result.val.value) = 3
    /\ result.val.value[3][1] = join(RootPath, FileB.name)
    /\ result.val.value[1][2] # result.val.value[2][2]
    /\ result.val.value[2][2] = Native(DocA).value

====
